---------------------------- MODULE Spec2Model ----------------------------
(* Figure/table extraction pipeline of pdf-to-quiz-generator:              *)
(*   src/1.extract_pdf2img_excessive.py   (variant "excessive")            *)
(*   src/1.extract_pdf2img_Inadequate.py  (variant "inadequate")           *)
(* Text is modelled as a sequence of one-character strings, boxes as       *)
(* <<x0, y0, x1, y1>> with integer page coordinates, a perceptual hash as  *)
(* a sequence of bits.  What the PDF decoder, the renderer and the hash    *)
(* function return is input, drawn from the pools defined below.           *)
EXTENDS Integers, Sequences, FiniteSets, TLC

VARIABLES
    variant,        \* which extractor script runs
    pc,             \* position of the main program
    doc,            \* index into os.listdir(PDF_DIR) of the current document
    page_num,       \* enumerate(pdf.pages, start=1)
    idx,            \* enumerate(candidates, start=1) / enumerate(page.images, start=1)
    page,           \* the current page as decoded (index into PagePool), 0 outside a page
    figures,        \* list of figure records of the current document
    kept_hashes,    \* excessive: ledger of accepted hashes
    last_kept_hash, \* inadequate: hash of the last kept image, or None
    written,        \* documents whose JSON result was written
    failed,         \* documents whose processing raised out of process_pdf
    last,           \* what the most recent loop iteration did (observation)
    boxes,          \* merger: input boxes still to fold (raster + graphic)
    candidates,     \* merger: candidate list built so far
    absorbed,       \* merger: for each candidate, the input boxes it absorbed
    cap_cands,      \* _pick_best_caption: its argument
    cap_best,       \* _pick_best_caption: its result, or None
    sentences,      \* find_contexts: split_sentences(full_text)
    ctx_fig,        \* find_contexts: the figure record it is applied to
    ctx_out,        \* find_contexts: the record afterwards, or None
    primitives,     \* clusterer: the page's lines, rects and curves, in that order
    clusters,       \* clusterer: cluster list built so far
    members,        \* clusterer: for each cluster, the primitives that joined it
    graphic_boxes,  \* clusterer: what _gather_graphic_boxes returns, or None
    cls_in,         \* classifier: the candidate it is applied to
    cls_out,        \* classifier: the hint found and the verdict, or None
    fname_in,       \* file name: stem, page number and tail the extractor uses
    fname_out,      \* file name: the name written and what stage 2 parses from it
    run_doc,        \* rerun: the document (pages, renderings, sentences)
    run_out,        \* rerun: the record lists of the runs made so far
    disk,           \* rerun: the image files present in the output directory
    cap_page,       \* caption search: the page size, its words and the box searched
    out_files       \* the output directory: image path and content of each file

vars == <<variant, pc, doc, page_num, idx, page, figures, kept_hashes,
          last_kept_hash, written, failed, last, boxes, candidates, absorbed,
          cap_cands, cap_best, sentences, ctx_fig, ctx_out,
          primitives, clusters, members, graphic_boxes, cls_in, cls_out,
          fname_in, fname_out, run_doc, run_out, disk, cap_page, out_files>>

pipeVars == <<variant, pc, doc, page_num, idx, page, figures, kept_hashes,
              last_kept_hash, written, failed, last>>
mergeVars == <<boxes, candidates, absorbed>>
pickVars == <<cap_cands, cap_best>>
ctxVars == <<sentences, ctx_fig, ctx_out>>
clusterVars == <<primitives, clusters, members, graphic_boxes>>
classVars == <<cls_in, cls_out>>
nameVars == <<fname_in, fname_out>>
rerunVars == <<run_doc, run_out, disk>>
searchVars == <<cap_page>>
fileVars == <<out_files>>
moreVars == <<clusterVars, classVars, nameVars, rerunVars, searchVars, fileVars>>

\* Python's None; an optional record r is <<>> or <<r>>
None == <<>>

-----------------------------------------------------------------------------
(* Bounds of the model *)
NumDocs == 2        \* documents in PDF_DIR
NumPages == 2       \* pages per document
HashBits == 6       \* width of the perceptual hash

(* Program constants *)
MIN_IMG_WIDTH == 200
MIN_IMG_HEIGHT == 100
HASH_THRESHOLD == 5
SEARCH_MARGIN == 30
LINE_GAP_STOP == 18
WORD_JOIN_GAP == 6
CAPTION_MIN_LEN == 8
MERGE_DIST == 12
MIN_GRAPHIC_W == 120
MIN_GRAPHIC_H == 80

-----------------------------------------------------------------------------
(* Characters and strings *)
UpperCase == <<"A","B","C","D","E","F","G","H","I","J","K","L","M",
               "N","O","P","Q","R","S","T","U","V","W","X","Y","Z">>
LowerCase == <<"a","b","c","d","e","f","g","h","i","j","k","l","m",
               "n","o","p","q","r","s","t","u","v","w","x","y","z">>
DigitChars == <<"0","1","2","3","4","5","6","7","8","9">>

Range(s) == {s[i] : i \in DOMAIN s}
DigitSet == Range(DigitChars)
AlnumSet == Range(DigitChars) \cup Range(UpperCase) \cup Range(LowerCase)
IsDigit(c) == c \in DigitSet
IsSpace(c) == c = " "
IsAlnum(c) == c \in AlnumSet

\* str.upper() / str.lower() on one character
Upper(c) == IF \E i \in 1..26 : LowerCase[i] = c
            THEN UpperCase[CHOOSE i \in 1..26 : LowerCase[i] = c] ELSE c
Lower(c) == IF \E i \in 1..26 : UpperCase[i] = c
            THEN LowerCase[CHOOSE i \in 1..26 : UpperCase[i] = c] ELSE c
UpperStr(s) == [i \in 1..Len(s) |-> Upper(s[i])]

\* s[p:] starts with lit, ignoring case (re.I)
StartsWithCI(s, p, lit) ==
    /\ p + Len(lit) - 1 <= Len(s)
    /\ \A k \in 1..Len(lit) : Lower(s[p + k - 1]) = Lower(lit[k])

\* first position >= p that holds no whitespace (Len(s)+1 when there is none)
RECURSIVE SkipWs(_, _)
SkipWs(s, p) == IF p <= Len(s) /\ IsSpace(s[p]) THEN SkipWs(s, p + 1) ELSE p

\* str.strip()
RECURSIVE RStrip(_)
RStrip(s) == IF s # <<>> /\ IsSpace(s[Len(s)]) THEN RStrip(SubSeq(s, 1, Len(s) - 1)) ELSE s
Strip(s) == LET p == SkipWs(s, 1) IN RStrip(SubSeq(s, p, Len(s)))

\* str(n) for n >= 0
RECURSIVE IntToStr(_)
IntToStr(n) == IF n < 10 THEN <<DigitChars[n + 1]>>
               ELSE IntToStr(n \div 10) \o <<DigitChars[(n % 10) + 1]>>

\* sep.join(parts)
RECURSIVE Join(_, _)
Join(sep, parts) ==
    IF parts = <<>> THEN <<>>
    ELSE IF Len(parts) = 1 THEN parts[1]
    ELSE parts[1] \o sep \o Join(sep, Tail(parts))

Max(a, b) == IF a >= b THEN a ELSE b
Min(a, b) == IF a <= b THEN a ELSE b


-----------------------------------------------------------------------------
(* Labels: LABEL_REGEX and what is derived from it.  The alphabet of the    *)
(* model is ASCII, so the CJK alternatives of the pattern never apply.      *)

\* the alternatives of the label prefix, in the order the regex tries them
LabelAlts == << <<"F","i","g",".">>, <<"F","i","g","u","r","e">>, <<"F","i","g">>,
                <<"F","i","g","s">>, <<"T","a","b","l","e">>,
                <<"T","a","b",".">>, <<"T","a","b">> >>
\* the alternatives of the pattern of the inadequate variant
LabelAltsInadequate == << <<"F","i","g",".">>, <<"F","i","g","u","r","e">>,
                          <<"F","i","g">>, <<"T","a","b","l","e">> >>

\* end (exclusive) of the longest run of characters satisfying the class at p
RECURSIVE DigitsEnd(_, _)
DigitsEnd(s, p) == IF p <= Len(s) /\ IsDigit(s[p]) THEN DigitsEnd(s, p + 1) ELSE p
RECURSIVE AlnumEnd(_, _)
AlnumEnd(s, p) == IF p <= Len(s) /\ IsAlnum(s[p]) THEN AlnumEnd(s, p + 1) ELSE p

\* ([.\-][0-9A-Za-z]+)* from p: end (exclusive) of the greedy match
RECURSIVE NumTailEnd(_, _)
NumTailEnd(s, p) ==
    IF p + 1 <= Len(s) /\ s[p] \in {".", "-"} /\ IsAlnum(s[p + 1])
    THEN NumTailEnd(s, AlnumEnd(s, p + 1))
    ELSE p

\* the alternatives (indices) with which  ^\s*(?:alt)\s*[0-9]  matches s
LabelHits(alts, s) ==
    LET p0 == SkipWs(s, 1) IN
    {i \in 1..Len(alts) :
        /\ StartsWithCI(s, p0, alts[i])
        /\ LET q == SkipWs(s, p0 + Len(alts[i])) IN q <= Len(s) /\ IsDigit(s[q])}

\* LABEL_REGEX.match(text) is not None
LabelMatches(alts, s) == LabelHits(alts, s) # {}

\* m.group(1) of LABEL_REGEX: the number
LabelNumber(alts, s) ==
    LET p0 == SkipWs(s, 1)
        i == CHOOSE k \in LabelHits(alts, s) : \A j \in LabelHits(alts, s) : k <= j
        q == SkipWs(s, p0 + Len(alts[i]))
    IN SubSeq(s, q, NumTailEnd(s, DigitsEnd(s, q)) - 1)

\* group(1) of the second pattern  ^\s*(alt) : the prefix as written
LabelPrefix(alts, s) ==
    LET p0 == SkipWs(s, 1)
        hits == {i \in 1..Len(alts) : StartsWithCI(s, p0, alts[i])}
        i == CHOOSE k \in hits : \A j \in hits : k <= j
    IN SubSeq(s, p0, p0 + Len(alts[i]) - 1)

_extract_origin_id_from_caption(alts, caption) ==
    IF LabelMatches(alts, caption)
    THEN LabelPrefix(alts, caption) \o <<" ">> \o LabelNumber(alts, caption)
    ELSE <<>>

\* str.replace(old, new)
RECURSIVE Replace(_, _, _)
Replace(s, old, new) ==
    IF s = <<>> THEN <<>>
    ELSE IF Len(old) <= Len(s) /\ SubSeq(s, 1, Len(old)) = old
    THEN new \o Replace(SubSeq(s, Len(old) + 1, Len(s)), old, new)
    ELSE <<s[1]>> \o Replace(Tail(s), old, new)

_normalize_label_for_filename(caption) ==
    IF caption = <<>> \/ ~LabelMatches(LabelAlts, caption) THEN <<>>
    ELSE LET prefix == LabelPrefix(LabelAlts, caption)
             number == LabelNumber(LabelAlts, caption)
             up == Replace(Replace(UpperStr(prefix), <<"F","I","G",".">>, <<"F","I","G">>),
                           <<"T","A","B",".">>, <<"T","A","B","L","E">>)
             prefix_norm == IF up = <<"F","I","G","S">>
                            THEN <<"F","I","G","U","R","E","S">> ELSE up
         IN prefix_norm \o <<" ">> \o number

_sanitize_for_filename(name) ==
    [i \in 1..Len(name) |->
        IF name[i] \in {"\\", "/", "*", "?", ":", "\"", "<", ">", "|"} THEN "_" ELSE name[i]]

\* re.split(r'(?<=[.!?;])\s+', text, maxsplit=1)[0].strip()
_truncate_caption_like(text) ==
    IF text = <<>> THEN <<>>
    ELSE LET cuts == {p \in 2..Len(text) :
                         IsSpace(text[p]) /\ text[p - 1] \in {".", "!", "?", ";"}}
         IN IF cuts = {} THEN Strip(text)
            ELSE Strip(SubSeq(text, 1, (CHOOSE p \in cuts : \A q \in cuts : p <= q) - 1))

\* group(1) of  ^(Fig(?:ure)?s?[\s\-]*\d+(?:\.\d+)*)  (excessive) or
\* ^(Fig(?:ure)?\s*\d+(?:\.\d+)*)  (inadequate); <<>> when it does not match
RECURSIVE SkipSet(_, _, _)
SkipSet(s, p, cs) == IF p <= Len(s) /\ s[p] \in cs THEN SkipSet(s, p + 1, cs) ELSE p
RECURSIVE DotDigitsEnd(_, _)
DotDigitsEnd(s, p) ==
    IF p + 1 <= Len(s) /\ s[p] = "." /\ IsDigit(s[p + 1])
    THEN DotDigitsEnd(s, DigitsEnd(s, p + 1)) ELSE p
FigureIdAfter(s, p, seps) ==
    LET q == SkipSet(s, p, seps) IN
    IF q <= Len(s) /\ IsDigit(s[q])
    THEN SubSeq(s, 1, DotDigitsEnd(s, DigitsEnd(s, q)) - 1) ELSE <<>>
FigureIdMatch(v, s) ==
    LET fig == <<"F","i","g">>
        ure == <<"u","r","e">>
        seps == IF v = "excessive" THEN {" ", "-"} ELSE {" "}
        \* the places where the optional parts may end, greediest first
        a == IF StartsWithCI(s, 4, ure) THEN 7 ELSE 4
        b == IF v = "excessive" /\ StartsWithCI(s, a, <<"s">>) THEN a + 1 ELSE a
        tries == <<b, a, IF v = "excessive" /\ StartsWithCI(s, 4, <<"s">>) THEN 5 ELSE 4, 4>>
        ok == {k \in 1..4 : FigureIdAfter(s, tries[k], seps) # <<>>}
    IN IF ~StartsWithCI(s, 1, fig) \/ ok = {} THEN <<>>
       ELSE FigureIdAfter(s, tries[CHOOSE k \in ok : \A j \in ok : k <= j], seps)

-----------------------------------------------------------------------------
(* Boxes *)
_bbox_expand(b, margin) == <<b[1] - margin, b[2] - margin, b[3] + margin, b[4] + margin>>

_bbox_union(a, b) == <<Min(a[1], b[1]), Min(a[2], b[2]), Max(a[3], b[3]), Max(a[4], b[4])>>

_bbox_area(b) == Max(0, b[3] - b[1]) * Max(0, b[4] - b[2])

\* _bbox_dist squared: the code's (dx ** 2 + dy ** 2) ** 0.5 is compared with a
\* threshold t >= 0, which is the comparison of dx^2 + dy^2 with t^2
_bbox_dist_sq(a, b) ==
    LET dx == Max(0, Max(b[1] - a[3], a[1] - b[3]))
        dy == Max(0, Max(b[2] - a[4], a[2] - b[4]))
    IN dx * dx + dy * dy

\* page_bbox is (0, 0, w, h); None when the clipped box is degenerate
_clip_to_page(b, page_bbox) ==
    LET x0 == Max(page_bbox[1], Min(b[1], page_bbox[3]))
        y0 == Max(page_bbox[2], Min(b[2], page_bbox[4]))
        x1 == Max(page_bbox[1], Min(b[3], page_bbox[3]))
        y1 == Max(page_bbox[2], Min(b[4], page_bbox[4]))
    IN IF x1 - x0 <= 1 \/ y1 - y0 <= 1 THEN None ELSE <<x0, y0, x1, y1>>

-----------------------------------------------------------------------------
(* Caption Locator *)

\* sorted(seq, key=...) for a key that is a pair of numbers: stable insertion
\* sort of the items [k |-> key, v |-> element]
KeyLe(a, b) == a[1] < b[1] \/ (a[1] = b[1] /\ a[2] <= b[2])
RECURSIVE SortedInsert(_, _)
SortedInsert(sorted, it) ==
    IF sorted = <<>> THEN <<it>>
    ELSE IF KeyLe(sorted[Len(sorted)].k, it.k) THEN Append(sorted, it)
    ELSE Append(SortedInsert(SubSeq(sorted, 1, Len(sorted) - 1), it), sorted[Len(sorted)])
RECURSIVE SortItems(_)
SortItems(items) ==
    IF items = <<>> THEN <<>>
    ELSE SortedInsert(SortItems(SubSeq(items, 1, Len(items) - 1)), items[Len(items)])
SortBy(seq, keys) ==
    LET sorted == SortItems([i \in 1..Len(seq) |-> [k |-> keys[i], v |-> seq[i]]])
    IN [i \in 1..Len(seq) |-> sorted[i].v]

_words_in_rect(words, rect) ==
    SelectSeq(words, LAMBDA w : w.x0 >= rect[1] /\ w.x1 <= rect[3]
                                /\ w.top >= rect[2] /\ w.bottom <= rect[4])

\* round(top / 5) * 5 for an integer top >= 0 (top / 5 is never halfway)
Round5(top) == IF top % 5 <= 2 THEN top - (top % 5) ELSE top + 5 - (top % 5)

Abs(n) == IF n < 0 THEN -n ELSE n

\* the loop of _join_words_linewise over words_sorted[k..]
RECURSIVE JoinLinesLoop(_, _, _, _, _, _)
JoinLinesLoop(ws, k, lines, current_line, last_top, last_x1) ==
    IF k > Len(ws) THEN Append(lines, current_line)
    ELSE LET w == ws[k] IN
         IF Abs(w.top - last_top) <= WORD_JOIN_GAP
         THEN JoinLinesLoop(ws, k + 1, lines,
                  current_line \o (IF w.x0 - last_x1 > WORD_JOIN_GAP THEN <<" ">> ELSE <<>>)
                               \o w.text,
                  last_top, w.x1)
         ELSE JoinLinesLoop(ws, k + 1, Append(lines, current_line), w.text, w.top, w.x1)

\* " ".join(s.strip() for s in lines if s.strip())
JoinStripped(lines) ==
    Join(<<" ">>, SelectSeq([i \in 1..Len(lines) |-> Strip(lines[i])], LAMBDA l : l # <<>>))

\* _join_words_linewise from words_sorted on
JoinSorted(ws) == JoinStripped(JoinLinesLoop(ws, 2, <<>>, ws[1].text, ws[1].top, ws[1].x1))

_join_words_linewise(words) ==
    IF words = <<>> THEN <<>>
    ELSE JoinSorted(SortBy(words, [i \in 1..Len(words) |-> <<Round5(words[i].top), words[i].x0>>]))

\* variation: a label is worth 1 instead of 10
CaptionScore_SmallBonus(item) ==
    (IF LabelMatches(LabelAlts, item[1]) THEN 1000 ELSE 0)
    - item[2] * 10 - Max(0, Len(item[1]) - 260) * 2

\* has_label * 10 - dist * 0.01 - max(0, len(text) - 260) * 0.002, in thousandths
\* (exact arithmetic: the floating-point rounding of the code is far below the
\* 0.002 by which two scores differ, and can show only where they are equal here)
CaptionScore(item) ==
    (IF LabelMatches(LabelAlts, item[1]) THEN 10000 ELSE 0)
    - item[2] * 10 - Max(0, Len(item[1]) - 260) * 2

\* max(candidates, key=score): the first item of maximal score
_pick_best_caption(cands) ==
    IF cands = <<>> THEN <<>>
    ELSE LET best == CHOOSE i \in 1..Len(cands) :
                        /\ \A j \in 1..Len(cands) : CaptionScore(cands[j]) <= CaptionScore(cands[i])
                        /\ \A j \in 1..(i - 1) : CaptionScore(cands[j]) < CaptionScore(cands[i])
         IN cands[best][1]

SideNames == <<"bottom", "top", "right", "left">>

\* variation: the search rectangles start 2 units away from the box
SearchRegion_Detached(side, page_w, page_h, bbox) ==
    LET x0 == bbox[1]  y0 == bbox[2]  x1 == bbox[3]  y1 == bbox[4] IN
    CASE side = "bottom" -> <<x0, y1 + 2, x1, Min(page_h, y1 + 3 * SEARCH_MARGIN)>>
      [] side = "top"    -> <<x0, Max(0, y0 - 3 * SEARCH_MARGIN), x1, y0 - 2>>
      [] side = "right"  -> <<x1 + 2, Max(0, y0 - SEARCH_MARGIN),
                              Min(page_w, x1 + 3 * SEARCH_MARGIN), Min(page_h, y1 + SEARCH_MARGIN)>>
      [] side = "left"   -> <<Max(0, x0 - 3 * SEARCH_MARGIN), Max(0, y0 - SEARCH_MARGIN),
                              x0 - 2, Min(page_h, y1 + SEARCH_MARGIN)>>

\* regions[side] of _find_caption_four_directions
SearchRegion(side, page_w, page_h, bbox) ==
    LET x0 == bbox[1]  y0 == bbox[2]  x1 == bbox[3]  y1 == bbox[4] IN
    CASE side = "bottom" -> <<x0, y1, x1, Min(page_h, y1 + 3 * SEARCH_MARGIN)>>
      [] side = "top"    -> <<x0, Max(0, y0 - 3 * SEARCH_MARGIN), x1, y0>>
      [] side = "right"  -> <<x1, Max(0, y0 - SEARCH_MARGIN),
                              Min(page_w, x1 + 3 * SEARCH_MARGIN), Min(page_h, y1 + SEARCH_MARGIN)>>
      [] side = "left"   -> <<Max(0, x0 - 3 * SEARCH_MARGIN), Max(0, y0 - SEARCH_MARGIN),
                              x0, Min(page_h, y1 + SEARCH_MARGIN)>>

\* the scan along the axis: texts of axis_sorted[1..] up to the first gap > LINE_GAP_STOP
RECURSIVE AxisScan(_, _, _, _, _)
AxisScan(ws, k, vertical, last_axis, lines) ==
    IF k > Len(ws) THEN lines
    ELSE LET cur_axis == IF vertical THEN ws[k].top ELSE ws[k].x0 IN
         IF Abs(cur_axis - last_axis) > LINE_GAP_STOP THEN lines
         ELSE AxisScan(ws, k + 1, vertical, cur_axis, Append(lines, ws[k].text))

\* re.sub(r'\s+', ' ', text): every run of whitespace becomes one blank.  The
\* text is collapsed by halves (a run that spans the middle is one run), which
\* keeps the depth of the evaluation logarithmic in the length of the text
GlueCollapsed(a, b) ==
    IF a # <<>> /\ b # <<>> /\ IsSpace(a[Len(a)]) /\ IsSpace(b[1]) THEN a \o Tail(b) ELSE a \o b
RECURSIVE CollapseWs(_)
CollapseWs(s) ==
    IF Len(s) = 0 THEN <<>>
    ELSE IF Len(s) = 1 THEN (IF IsSpace(s[1]) THEN <<" ">> ELSE s)
    ELSE GlueCollapsed(CollapseWs(SubSeq(s, 1, Len(s) \div 2)),
                       CollapseWs(SubSeq(s, (Len(s) \div 2) + 1, Len(s))))

\* sorted(local_words, key=(top, x0)) for bottom and top, key=(x0, top) otherwise
AxisSorted(vertical, local_words) ==
    SortBy(local_words,
           [i \in 1..Len(local_words) |->
               IF vertical THEN <<local_words[i].top, local_words[i].x0>>
               ELSE <<local_words[i].x0, local_words[i].top>>])

\* re.sub(r'\s+', ' ', " ".join(lines)).strip() for the lines of the scan
ScannedText(vertical, axis_sorted) ==
    Strip(CollapseWs(Join(<<" ">>,
        AxisScan(axis_sorted, 2, vertical,
                 IF vertical THEN axis_sorted[1].top ELSE axis_sorted[1].x0,
                 <<axis_sorted[1].text>>))))

\* dist of a side: from the box edge to the near edge of the search rectangle
SideDist(side, rect, bbox) ==
    Max(0, CASE side = "bottom" -> rect[2] - bbox[4]
             [] side = "top"    -> bbox[2] - rect[4]
             [] side = "right"  -> rect[1] - bbox[3]
             [] side = "left"   -> bbox[1] - rect[3])

\* candidates.append((text_candidate, dist)) when the text is long enough
SideAppend(text_candidate, dist) ==
    IF Len(text_candidate) >= CAPTION_MIN_LEN THEN << <<text_candidate, dist>> >> ELSE <<>>

\* the body of the loop over regions, for the words of one rectangle
SideOfWords(side, rect, local_words, bbox) ==
    IF local_words = <<>> THEN <<>>
    ELSE IF Len(_join_words_linewise(local_words)) < CAPTION_MIN_LEN THEN <<>>
    ELSE SideAppend(ScannedText(side \in {"bottom", "top"},
                                AxisSorted(side \in {"bottom", "top"}, local_words)),
                    SideDist(side, rect, bbox))

SideOfRect(side, rect, words, bbox) == SideOfWords(side, rect, _words_in_rect(words, rect), bbox)

\* what one side contributes to the list of candidates: <<>> or << <<text, dist>> >>
SideCandidate(side, page_w, page_h, words, bbox) ==
    SideOfRect(side, SearchRegion(side, page_w, page_h, bbox), words, bbox)

\* the candidates list of _find_caption_four_directions
CaptionCandidates(page_w, page_h, words, bbox) ==
    SideCandidate("bottom", page_w, page_h, words, bbox)
    \o SideCandidate("top", page_w, page_h, words, bbox)
    \o SideCandidate("right", page_w, page_h, words, bbox)
    \o SideCandidate("left", page_w, page_h, words, bbox)

\* if best: best = _truncate_caption_like(best)
TruncateBest(best) == IF best # <<>> THEN _truncate_caption_like(best) ELSE best

_find_caption_four_directions(page_w, page_h, words, bbox) ==
    TruncateBest(_pick_best_caption(CaptionCandidates(page_w, page_h, words, bbox)))

-----------------------------------------------------------------------------
(* Context Locator: find_contexts.  Its argument here is the list of        *)
(* sentences, split_sentences(full_text); indices are 0-based as in the     *)
(* code, sentences[s:e] is SubSeq(sentences, s + 1, e).                     *)

\* variation: the last run of digits of the text is the number
FirstNumber_Last(text) ==
    LET starts == {p \in 1..Len(text) : IsDigit(text[p])} IN
    IF starts = {} THEN <<>>
    ELSE LET e == CHOOSE q \in starts : \A r \in starts : q >= r
             p == CHOOSE q \in starts :
                      /\ \A r \in q..e : IsDigit(text[r])
                      /\ (q = 1 \/ ~IsDigit(text[q - 1]))
         IN SubSeq(text, p, e)

\* re.findall(r'\d+(?:\.\d+)*', text)[0], or <<>> when there is no number
FirstNumber(text) ==
    LET starts == {p \in 1..Len(text) : IsDigit(text[p])} IN
    IF starts = {} THEN <<>>
    ELSE LET p == CHOOSE q \in starts : \A r \in starts : q <= r
         IN SubSeq(text, p, DotDigitsEnd(text, DigitsEnd(text, p)) - 1)

\* the pattern text num matches s at p; re.escape(num) makes '.' literal,
\* without it '.' matches any character
NumAt(s, p, num, escaped) ==
    /\ p + Len(num) - 1 <= Len(s)
    /\ \A k \in 1..Len(num) :
          \/ s[p + k - 1] = num[k]
          \/ ~escaped /\ num[k] = "."

\* re.search(prefix + sep + num, s, re.I), sep being \s* (any) or one blank
RefSearch(s, prefix, any_ws, num, escaped) ==
    \E p \in 1..Len(s) :
        /\ StartsWithCI(s, p, prefix)
        /\ LET q == p + Len(prefix) IN
           IF any_ws THEN \E r \in q..SkipWs(s, q) : NumAt(s, r, num, escaped)
           ELSE q <= Len(s) /\ s[q] = " " /\ NumAt(s, q + 1, num, escaped)

\* any(re.search(p, s, re.I) for p in patterns)
RefersTo(v, s, num) ==
    IF v = "excessive"
    THEN \/ RefSearch(s, <<"F","i","g","u","r","e">>, TRUE, num, TRUE)
         \/ RefSearch(s, <<"F","i","g",".">>, TRUE, num, TRUE)
         \/ RefSearch(s, <<"F","i","g">>, TRUE, num, TRUE)
         \/ RefSearch(s, <<"T","a","b","l","e">>, TRUE, num, TRUE)
         \/ RefSearch(s, <<"T","a","b",".">>, TRUE, num, TRUE)
         \/ RefSearch(s, <<"T","a","b">>, TRUE, num, TRUE)
    ELSE \/ RefSearch(s, <<"F","i","g","u","r","e">>, FALSE, num, FALSE)
         \/ RefSearch(s, <<"F","i","g",".">>, TRUE, num, FALSE)
         \/ RefSearch(s, <<"F","i","g">>, TRUE, num, FALSE)
         \/ RefSearch(s, <<"T","a","b","l","e">>, FALSE, num, FALSE)

\* variation: the window reaches one sentence further
Window_Wide(i, total) ==
    LET start == Max(0, i - 2)
        end == Min(total, i + 4)
    IN IF end - start < 5
       THEN <<start, Min(total, end + (5 - (end - start)))>>
       ELSE <<start, end>>

\* the window (start, end) appended for a matching sentence index i
Window(i, total) ==
    LET start == Max(0, i - 2)
        end == Min(total, i + 3)
    IN IF end - start < 5
       THEN <<start, Min(total, end + (5 - (end - start)))>>
       ELSE <<start, end>>

\* the text whose first number is the figure's number
NumberSource(v, fig) ==
    IF v = "excessive" THEN fig.origin_id \o <<" ">> \o fig.caption ELSE fig.origin_id

\* variation: a record is matched by the references of its own kind only
MatchingIndices_SameKind(v, fig, sents) ==
    LET num == FirstNumber(NumberSource(v, fig)) IN
    IF num = <<>> THEN {}
    ELSE {i \in 0..(Len(sents) - 1) :
             IF StartsWithCI(fig.origin_id, 1, <<"T","a","b">>)
             THEN \/ RefSearch(sents[i + 1], <<"T","a","b","l","e">>, v = "excessive", num, TRUE)
                  \/ v = "excessive" /\ RefSearch(sents[i + 1], <<"T","a","b">>, TRUE, num, TRUE)
             ELSE \/ RefSearch(sents[i + 1], <<"F","i","g","u","r","e">>, v = "excessive", num, TRUE)
                  \/ RefSearch(sents[i + 1], <<"F","i","g">>, TRUE, num, TRUE)
                  \/ RefSearch(sents[i + 1], <<"F","i","g",".">>, TRUE, num, TRUE)}

\* the 0-based indices of the sentences that match the figure's patterns
MatchingIndices(v, fig, sents) ==
    LET num == FirstNumber(NumberSource(v, fig)) IN
    IF num = <<>> THEN {}
    ELSE {i \in 0..(Len(sents) - 1) : RefersTo(v, sents[i + 1], num)}

\* ranges, in the order the loop over the sentences appends them
RECURSIVE RawRanges(_, _, _)
RawRanges(matching, i, total) ==
    IF i >= total THEN <<>>
    ELSE (IF i \in matching THEN <<Window(i, total)>> ELSE <<>>)
         \o RawRanges(matching, i + 1, total)

\* variation: a range is merged only when it overlaps the previous one
RECURSIVE MergeRanges_OverlapOnly(_, _, _)
MergeRanges_OverlapOnly(sorted, k, merged) ==
    IF k > Len(sorted) THEN merged
    ELSE IF merged = <<>> THEN MergeRanges_OverlapOnly(sorted, k + 1, <<sorted[k]>>)
    ELSE IF sorted[k][1] < merged[Len(merged)][2]
         THEN MergeRanges_OverlapOnly(sorted, k + 1,
                  [merged EXCEPT ![Len(merged)] = <<@[1], Max(@[2], sorted[k][2])>>])
         ELSE MergeRanges_OverlapOnly(sorted, k + 1, Append(merged, sorted[k]))

\* the merge loop over sorted(ranges)
RECURSIVE MergeRanges(_, _, _)
MergeRanges(sorted, k, merged) ==
    IF k > Len(sorted) THEN merged
    ELSE IF merged = <<>> THEN MergeRanges(sorted, k + 1, <<sorted[k]>>)
    ELSE LET ps == merged[Len(merged)][1]
             pe == merged[Len(merged)][2]
             cs == sorted[k][1]
             ce == sorted[k][2]
         IN IF cs <= pe
            THEN MergeRanges(sorted, k + 1,
                             [merged EXCEPT ![Len(merged)] = <<ps, Max(pe, ce)>>])
            ELSE MergeRanges(sorted, k + 1, Append(merged, sorted[k]))

\* merged, for a figure whose matching sentence indices are given
ContextRanges(matching, total) ==
    LET ranges == RawRanges(matching, 0, total)
    IN MergeRanges(SortBy(ranges, ranges), 1, <<>>)

\* fig["contexts"]
Contexts(v, fig, sents) ==
    LET merged == ContextRanges(MatchingIndices(v, fig, sents), Len(sents))
    IN [k \in 1..Len(merged) |->
           Join(<<" ">>, SubSeq(sents, merged[k][1] + 1, merged[k][2]))]

WithContexts(fig, ctxs) ==
    [figure_id |-> fig.figure_id, origin_id |-> fig.origin_id, page |-> fig.page,
     caption |-> fig.caption, image_path |-> fig.image_path, width |-> fig.width,
     height |-> fig.height, phash |-> fig.phash, contexts |-> ctxs]

\* variation: records without a context are dropped
find_contexts_OnlyReferenced(v, figs, sents) ==
    SelectSeq([k \in 1..Len(figs) |-> WithContexts(figs[k], Contexts(v, figs[k], sents))],
              LAMBDA f : f.contexts # <<>>)

find_contexts(v, figs, sents) ==
    [k \in 1..Len(figs) |-> WithContexts(figs[k], Contexts(v, figs[k], sents))]

-----------------------------------------------------------------------------
(* Candidate Merger: the fold of lines 329-343 *)

\* iou > 0.3, where iou = inter / uni and uni = area(b) + area(cb) - inter + 1e-6.
\* With integer coordinates inter and uni - 1e-6 are integers, and
\* 10 * inter > 3 * uni  is  10 * inter > 3 * (uni - 1e-6)  (the two sides differ by >= 1)
IouExceeds(b, cb) ==
    LET inter == Max(0, Min(b[3], cb[3]) - Max(b[1], cb[1]))
                 * Max(0, Min(b[4], cb[4]) - Max(b[2], cb[2]))
        uni == _bbox_area(b) + _bbox_area(cb) - inter
    IN 10 * inter > 3 * uni

\* the merge rule: iou > 0.3 or _bbox_dist(b, cb) < 10
MergeRule(b, cb) == IouExceeds(b, cb) \/ _bbox_dist_sq(b, cb) < 10 * 10

\* index of the candidate that absorbs b (the first that satisfies the rule), or 0
AbsorbingIndex(cands, b) ==
    LET hits == {i \in 1..Len(cands) : MergeRule(b, cands[i])} IN
    IF hits = {} THEN 0 ELSE CHOOSE i \in hits : \A j \in hits : i <= j

\* variation: the absorbing candidate is replaced by the box instead of unioned with it
FoldBox_Replaces(cands, b) ==
    LET i == AbsorbingIndex(cands, b) IN
    IF i = 0 THEN Append(cands, b)
    ELSE [cands EXCEPT ![i] = b]

\* one iteration of  for b in raster_boxes + graphic_boxes
FoldBox(cands, b) ==
    LET i == AbsorbingIndex(cands, b) IN
    IF i = 0 THEN Append(cands, b)
    ELSE [cands EXCEPT ![i] = _bbox_union(cands[i], b)]

RECURSIVE FoldBoxes(_, _)
FoldBoxes(cands, bs) ==
    IF bs = <<>> THEN cands ELSE FoldBoxes(FoldBox(cands, bs[1]), Tail(bs))

-----------------------------------------------------------------------------
(* Perceptual hash *)

\* abs(cur_hash - h): the number of differing bits
Hamming(a, b) == Cardinality({i \in 1..Len(a) : a[i] # b[i]})

\* variation: only the most recently kept hash is compared
IsDuplicateOfKept_LastOnly(cur_hash, kept) ==
    kept # <<>> /\ Hamming(cur_hash, kept[Len(kept)]) <= HASH_THRESHOLD

\* any(abs(cur_hash - h) <= HASH_THRESHOLD for h in kept_hashes)
IsDuplicateOfKept(cur_hash, kept) ==
    \E k \in 1..Len(kept) : Hamming(cur_hash, kept[k]) <= HASH_THRESHOLD

\* last_kept_hash is not None and abs(cur_hash - last_kept_hash) <= HASH_THRESHOLD
IsDuplicateOfLast(cur_hash, last_hash) ==
    last_hash # None /\ Hamming(cur_hash, last_hash) <= HASH_THRESHOLD

\* str(cur_hash): the bits as a hexadecimal number of ceil(n / 4) digits
HexChars == <<"0","1","2","3","4","5","6","7","8","9","a","b","c","d","e","f">>
RECURSIVE BitsValue(_)
BitsValue(bits) ==
    IF bits = <<>> THEN 0 ELSE 2 * BitsValue(SubSeq(bits, 1, Len(bits) - 1)) + bits[Len(bits)]
RECURSIVE HexDigits(_, _)
HexDigits(n, width) ==
    IF width = 0 THEN <<>> ELSE HexDigits(n \div 16, width - 1) \o <<HexChars[(n % 16) + 1]>>
HashToStr(h) == HexDigits(BitsValue(h), (Len(h) + 3) \div 4)

\* imagehash.hex_to_hash: the bits of the hexadecimal string, HashBits wide
RECURSIVE HexValue(_)
HexValue(str) ==
    IF str = <<>> THEN 0
    ELSE 16 * HexValue(SubSeq(str, 1, Len(str) - 1))
         + (CHOOSE v \in 0..15 : HexChars[v + 1] = str[Len(str)])
RECURSIVE BitsOf(_, _)
BitsOf(n, width) ==
    IF width = 0 THEN <<>> ELSE Append(BitsOf(n \div 2, width - 1), n % 2)
StrToHash(str) == BitsOf(HexValue(str), HashBits)

\* variation: rejected only when both dimensions are too small
TooSmall_Both(size) == size[1] < MIN_IMG_WIDTH /\ size[2] < MIN_IMG_HEIGHT

\* pil_img.width < MIN_IMG_WIDTH or pil_img.height < MIN_IMG_HEIGHT
TooSmall(size) == size[1] < MIN_IMG_WIDTH \/ size[2] < MIN_IMG_HEIGHT

-----------------------------------------------------------------------------
(* Content Classifier *)

\* text_area of _text_and_edge_score
RECURSIVE SumAreas(_)
SumAreas(ws) ==
    IF ws = <<>> THEN 0
    ELSE Max(0, ws[1].x1 - ws[1].x0) * Max(0, ws[1].bottom - ws[1].top) + SumAreas(Tail(ws))
TextArea(words, bbox) == SumAreas(_words_in_rect(words, bbox))
ScoreArea(bbox) == Max(1, (bbox[3] - bbox[1]) * (bbox[4] - bbox[2]))

\* text_ratio = min(1.0, text_area / area) is given by text_area and area,
\* mean_edge in hundredths
_looks_like_plain_text(text_area, area, edge_pct, stats_hint) ==
    IF stats_hint # None /\ stats_hint[1].lines + stats_hint[1].curves >= 6 THEN FALSE
    ELSE IF stats_hint # None /\ stats_hint[1].rects >= 3 THEN FALSE
    ELSE 100 * Min(text_area, area) > 55 * area /\ edge_pct < 10

\* variation: the last cluster near the candidate gives the hint
StatsHint_Last(graphics, clipped) ==
    LET near == {k \in 1..Len(graphics) : _bbox_dist_sq(clipped, graphics[k].box) < 5 * 5} IN
    IF near = {} THEN None
    ELSE <<graphics[CHOOSE k \in near : \A j \in near : k >= j].st>>

\* the first cluster of graphic_boxes_stats within distance 5 of clipped, or None
StatsHint(graphics, clipped) ==
    LET near == {k \in 1..Len(graphics) : _bbox_dist_sq(clipped, graphics[k].box) < 5 * 5} IN
    IF near = {} THEN None
    ELSE <<graphics[CHOOSE k \in near : \A j \in near : k <= j].st>>

-----------------------------------------------------------------------------
(* Input: what the decoder, the renderer and the hash function may return *)

Word(text, x0, x1, top, bottom) ==
    [text |-> text, x0 |-> x0, x1 |-> x1, top |-> top, bottom |-> bottom]

\* the text line "Figure 1. System overview." right below the box (100,100,300,250)
CaptionLine ==
    << Word(<<"F","i","g","u","r","e">>, 100, 130, 255, 265),
       Word(<<"1",".">>, 133, 141, 255, 265),
       Word(<<"S","y","s","t","e","m">>, 144, 175, 255, 265),
       Word(<<"o","v","e","r","v","i","e","w",".">>, 178, 215, 255, 265) >>

\* one word that covers 60% of the box (100,400,300,500)
TextBlock == << Word(<<"L","o","r","e","m">>, 100, 300, 420, 480) >>

\* pages as decoded: size, words, page.images, _gather_graphic_boxes(page)
PagePool ==
    << \* one raster image of 200 x 150 with its caption line below
       [w |-> 612, h |-> 792, words |-> CaptionLine,
        images |-> << <<100, 100, 300, 250>> >>, graphics |-> <<>>],
       \* two raster images without text, and one that lies off the page
       [w |-> 612, h |-> 792, words |-> <<>>,
        images |-> << <<100, 100, 300, 250>>, <<100, 400, 300, 550>>, <<700, 100, 900, 250>> >>,
        graphics |-> <<>>],
       \* a raster box that is mostly text
       [w |-> 612, h |-> 792, words |-> TextBlock,
        images |-> << <<100, 400, 300, 500>> >>, graphics |-> <<>>],
       \* the same region found as a cluster of six vector lines
       [w |-> 612, h |-> 792, words |-> TextBlock, images |-> <<>>,
        graphics |-> << [box |-> <<100, 400, 300, 500>>,
                         st |-> [lines |-> 6, rects |-> 0, curves |-> 0]] >>] >>

\* rendered sizes (width, height): the renderer's answer
SizePool == {<<150, 90>>, <<199, 100>>, <<200, 99>>, <<200, 100>>}

\* mean_edge in hundredths
EdgePool == {9, 10}

\* hashes: the first k bits set
PrefixHash(k) == [i \in 1..HashBits |-> IF i <= k THEN 1 ELSE 0]
HashPool == {PrefixHash(0), PrefixHash(HashBits \div 2), PrefixHash(HashBits)}

\* the places of the loop body where an exception may be raised
FaultPoints == {"clip", "caption", "render", "classify", "hash", "save"}
FaultPointsInadequate == {"caption", "render", "hash", "save"}

CandInputs(v) ==
    [size : SizePool, edge : EdgePool, hash : HashPool,
     fault : {"none"} \cup (IF v = "excessive" THEN FaultPoints ELSE FaultPointsInadequate)]

\* the sentences of the document's full text
SentFigure1 == <<"S","e","e"," ","F","i","g","u","r","e"," ","1",".">>
SentPlain == <<"T","e","x","t",".">>
DocTextPool == { <<SentPlain, SentPlain>>, <<SentPlain, SentFigure1, SentPlain>> }

\* Path(pdf_path).stem of the d-th file of PDF_DIR
Stem(d) == <<"d">> \o IntToStr(d)
\* os.path.join(OUTPUT_DIR, paper_id)
OutDir(d) == <<"r","a","w","_","i","m","g","/">> \o Stem(d)

-----------------------------------------------------------------------------
(* One iteration of the candidate loop of extract_images_and_captions.      *)
(* The result names what happened (outcome), the steps of the body that ran *)
(* (trace), and the record list and the hash ledger afterwards.             *)

Result(outcome, trace, figs, ledger) ==
    [outcome |-> outcome, trace |-> trace, figures |-> figs, ledger |-> ledger]

\* f"FIG_P{page_num}_{idx}" and f"fig_p{page_num}_{idx}"
SyntheticId(prefix, pn, i) == prefix \o IntToStr(pn) \o <<"_">> \o IntToStr(i)

\* f"{stem}_p{page_num}_{file_tail}.png" joined to out_dir
ImageName(stem, pn, file_tail) ==
    stem \o <<"_","p">> \o IntToStr(pn) \o <<"_">> \o file_tail \o <<".","p","n","g">>
ImagePath(d, pn, file_tail) == OutDir(d) \o <<"/">> \o ImageName(Stem(d), pn, file_tail)

FigureRecord(figure_id, origin_id, pn, caption, image_path, size, cur_hash) ==
    [figure_id |-> figure_id, origin_id |-> origin_id, page |-> pn, caption |-> caption,
     image_path |-> image_path, width |-> size[1], height |-> size[2],
     phash |-> HashToStr(cur_hash)]

\* candidates of a page: the fold over raster_boxes + graphic_boxes
PageCandidates(pg) ==
    FoldBoxes(<<>>, pg.images \o [k \in 1..Len(pg.graphics) |-> pg.graphics[k].box])

\* origin_id = (origin_id_raw or f"FIG_P{page_num}_{idx}").upper()
OriginId(origin_id_raw, pn, i) ==
    UpperStr(IF origin_id_raw # <<>> THEN origin_id_raw
             ELSE SyntheticId(<<"F","I","G","_","P">>, pn, i))

\* figure_id = origin_id_raw or (group(1) of the match, if any, else f"fig_p{page_num}_{idx}")
FigureId(origin_id_raw, figure_id_match, pn, i) ==
    IF origin_id_raw # <<>> THEN origin_id_raw
    ELSE IF figure_id_match # <<>> THEN figure_id_match
    ELSE SyntheticId(<<"f","i","g","_","p">>, pn, i)

\* file_tail of lines 386-390
FileTail(label_for_name, origin_id) ==
    IF label_for_name # <<>> THEN _sanitize_for_filename(label_for_name)
    ELSE _sanitize_for_filename(origin_id)

\* variation: the index of the candidate is part of the file name
AcceptedRecord_IndexedName(d, pn, i, caption, origin_id_raw, origin_id, inp) ==
    FigureRecord(FigureId(origin_id_raw,
                          IF caption # <<>> THEN FigureIdMatch("excessive", caption) ELSE <<>>,
                          pn, i),
                 origin_id, pn, caption,
                 ImagePath(d, pn, FileTail(_normalize_label_for_filename(caption), origin_id)
                                  \o <<"_">> \o IntToStr(i)),
                 inp.size, inp.hash)

\* excessive, lines 385-411: the record of an accepted candidate
AcceptedRecord(d, pn, i, caption, origin_id_raw, origin_id, inp) ==
    FigureRecord(FigureId(origin_id_raw,
                          IF caption # <<>> THEN FigureIdMatch("excessive", caption) ELSE <<>>,
                          pn, i),
                 origin_id, pn, caption,
                 ImagePath(d, pn, FileTail(_normalize_label_for_filename(caption), origin_id)),
                 inp.size, inp.hash)

\* variation: the hash enters the ledger before the image is saved
ProcessRendered_LedgerBeforeSave(pg, clipped, rec, inp, figs, kept) ==
    IF inp.fault = "render"
    THEN Result("error", <<"clip", "caption", "render">>, figs, kept)
    ELSE IF TooSmall(inp.size)
    THEN Result("small", <<"clip", "caption", "render">>, figs, kept)
    ELSE IF inp.fault = "classify"
    THEN Result("error", <<"clip", "caption", "render", "classify">>, figs, kept)
    ELSE IF _looks_like_plain_text(TextArea(pg.words, clipped), ScoreArea(clipped),
                                   inp.edge, StatsHint(pg.graphics, clipped))
    THEN Result("plain_text", <<"clip", "caption", "render", "classify">>, figs, kept)
    ELSE IF inp.fault = "hash"
    THEN Result("error", <<"clip", "caption", "render", "classify", "hash">>, figs, kept)
    ELSE IF IsDuplicateOfKept(inp.hash, kept)
    THEN Result("duplicate", <<"clip", "caption", "render", "classify", "hash">>, figs, kept)
    ELSE IF inp.fault = "save"
    THEN Result("error", <<"clip", "caption", "render", "classify", "hash", "save">>,
                figs, Append(kept, inp.hash))
    ELSE Result("accepted", <<"clip", "caption", "render", "classify", "hash", "save">>,
                Append(figs, rec), Append(kept, inp.hash))

\* variation: the classifier runs before the size filter
ProcessRendered_ClassifyFirst(pg, clipped, rec, inp, figs, kept) ==
    IF inp.fault = "render"
    THEN Result("error", <<"clip", "caption", "render">>, figs, kept)
    ELSE IF inp.fault = "classify"
    THEN Result("error", <<"clip", "caption", "render", "classify">>, figs, kept)
    ELSE IF _looks_like_plain_text(TextArea(pg.words, clipped), ScoreArea(clipped),
                                   inp.edge, StatsHint(pg.graphics, clipped))
    THEN Result("plain_text", <<"clip", "caption", "render", "classify">>, figs, kept)
    ELSE IF TooSmall(inp.size)
    THEN Result("small", <<"clip", "caption", "render", "classify">>, figs, kept)
    ELSE IF inp.fault = "hash"
    THEN Result("error", <<"clip", "caption", "render", "classify", "hash">>, figs, kept)
    ELSE IF IsDuplicateOfKept(inp.hash, kept)
    THEN Result("duplicate", <<"clip", "caption", "render", "classify", "hash">>, figs, kept)
    ELSE IF inp.fault = "save"
    THEN Result("error", <<"clip", "caption", "render", "classify", "hash", "save">>,
                figs, kept)
    ELSE Result("accepted", <<"clip", "caption", "render", "classify", "hash", "save">>,
                Append(figs, rec), Append(kept, inp.hash))

\* excessive, lines 360-411: from the rendering on
ProcessRendered(pg, clipped, rec, inp, figs, kept) ==
    IF inp.fault = "render"
    THEN Result("error", <<"clip", "caption", "render">>, figs, kept)
    ELSE IF TooSmall(inp.size)
    THEN Result("small", <<"clip", "caption", "render">>, figs, kept)
    ELSE IF inp.fault = "classify"
    THEN Result("error", <<"clip", "caption", "render", "classify">>, figs, kept)
    ELSE IF _looks_like_plain_text(TextArea(pg.words, clipped), ScoreArea(clipped),
                                   inp.edge, StatsHint(pg.graphics, clipped))
    THEN Result("plain_text", <<"clip", "caption", "render", "classify">>, figs, kept)
    ELSE IF inp.fault = "hash"
    THEN Result("error", <<"clip", "caption", "render", "classify", "hash">>, figs, kept)
    ELSE IF IsDuplicateOfKept(inp.hash, kept)
    THEN Result("duplicate", <<"clip", "caption", "render", "classify", "hash">>, figs, kept)
    ELSE IF inp.fault = "save"
    THEN Result("error", <<"clip", "caption", "render", "classify", "hash", "save">>,
                figs, kept)
    ELSE Result("accepted", <<"clip", "caption", "render", "classify", "hash", "save">>,
                Append(figs, rec), Append(kept, inp.hash))

\* excessive, lines 356-358: the identifiers derived from the caption
ProcessLabelled(d, pg, pn, i, clipped, caption, origin_id_raw, inp, figs, kept) ==
    ProcessRendered(pg, clipped,
                    AcceptedRecord(d, pn, i, caption, origin_id_raw,
                                   OriginId(origin_id_raw, pn, i), inp),
                    inp, figs, kept)

ProcessCaptioned(d, pg, pn, i, clipped, caption, inp, figs, kept) ==
    ProcessLabelled(d, pg, pn, i, clipped, caption,
                    IF caption # <<>> THEN _extract_origin_id_from_caption(LabelAlts, caption)
                    ELSE <<>>,
                    inp, figs, kept)

\* the caption search of line 354 for candidate j of page k of the pool (the
\* pages being given, the captions are tabulated once)
CaptionTable ==
    [k \in 1..Len(PagePool) |->
        [j \in 1..Len(PageCandidates(PagePool[k])) |->
            IF _clip_to_page(PageCandidates(PagePool[k])[j],
                             <<0, 0, PagePool[k].w, PagePool[k].h>>) = None
            THEN <<>>
            ELSE _find_caption_four_directions(
                     PagePool[k].w, PagePool[k].h, PagePool[k].words,
                     _clip_to_page(PageCandidates(PagePool[k])[j],
                                   <<0, 0, PagePool[k].w, PagePool[k].h>>))]]

\* excessive, lines 349-354: clipping and the caption search
ProcessClipped(d, k, pn, i, clipped, inp, figs, kept) ==
    IF inp.fault = "clip" THEN Result("error", <<"clip">>, figs, kept)
    ELSE IF clipped = None THEN Result("clipped", <<"clip">>, figs, kept)
    ELSE IF inp.fault = "caption" THEN Result("error", <<"clip", "caption">>, figs, kept)
    ELSE ProcessCaptioned(d, PagePool[k], pn, i, clipped, CaptionTable[k][i], inp, figs, kept)

\* excessive, lines 346-413: the body of the loop, for candidate i of page k of the pool
ProcessCandidate(d, k, pn, i, inp, figs, kept) ==
    ProcessClipped(d, k, pn, i,
                   _clip_to_page(PageCandidates(PagePool[k])[i],
                                 <<0, 0, PagePool[k].w, PagePool[k].h>>),
                   inp, figs, kept)

\* inadequate, lines 71-81: the caption is read from the words below the image
RECURSIVE CaptionWordsBelow(_, _, _, _, _, _)
CaptionWordsBelow(words, k, img, found_start, last_top, caption_words) ==
    IF k > Len(words) THEN caption_words
    ELSE LET w == words[k]
             found == found_start
                      \/ StartsWithCI(w.text, 1, <<"F","i","g">>)
                      \/ StartsWithCI(w.text, 1, <<"T","a","b","l","e">>)
         IN IF w.top > img[4]
            THEN IF found
                 THEN IF last_top # None /\ w.top - last_top[1] > 20 THEN caption_words
                      ELSE CaptionWordsBelow(words, k + 1, img, TRUE, <<w.top>>,
                                             Append(caption_words, w.text))
                 ELSE CaptionWordsBelow(words, k + 1, img, FALSE, last_top, caption_words)
            ELSE CaptionWordsBelow(words, k + 1, img, found_start, last_top, caption_words)

CaptionBelow(words, img) ==
    Strip(CollapseWs(Join(<<" ">>, CaptionWordsBelow(words, 1, img, FALSE, None, <<>>))))

\* variation: the hash of a rejected duplicate is remembered too
ProcessImageRendered_RememberRejected(rec, inp, figs, last_hash) ==
    IF inp.fault = "render" THEN Result("error", <<"caption", "render">>, figs, last_hash)
    ELSE IF TooSmall(inp.size) THEN Result("small", <<"caption", "render">>, figs, last_hash)
    ELSE IF inp.fault = "hash"
    THEN Result("error", <<"caption", "render", "hash">>, figs, last_hash)
    ELSE IF IsDuplicateOfLast(inp.hash, last_hash)
    THEN Result("duplicate", <<"caption", "render", "hash">>, figs, inp.hash)
    ELSE IF inp.fault = "save"
    THEN Result("error", <<"caption", "render", "hash", "save">>, figs, last_hash)
    ELSE Result("accepted", <<"caption", "render", "hash", "save">>,
                Append(figs, rec), inp.hash)

\* inadequate, lines 92-122: from the rendering on
ProcessImageRendered(rec, inp, figs, last_hash) ==
    IF inp.fault = "render" THEN Result("error", <<"caption", "render">>, figs, last_hash)
    ELSE IF TooSmall(inp.size) THEN Result("small", <<"caption", "render">>, figs, last_hash)
    ELSE IF inp.fault = "hash"
    THEN Result("error", <<"caption", "render", "hash">>, figs, last_hash)
    ELSE IF IsDuplicateOfLast(inp.hash, last_hash)
    THEN Result("duplicate", <<"caption", "render", "hash">>, figs, last_hash)
    ELSE IF inp.fault = "save"
    THEN Result("error", <<"caption", "render", "hash", "save">>, figs, last_hash)
    ELSE Result("accepted", <<"caption", "render", "hash", "save">>,
                Append(figs, rec), inp.hash)

\* inadequate, lines 85-122: the record of an accepted image
ImageRecord(d, pn, i, caption, origin_id_raw, origin_id, inp) ==
    FigureRecord(FigureId(origin_id_raw, FigureIdMatch("inadequate", caption), pn, i),
                 origin_id, pn, caption,
                 ImagePath(d, pn, _sanitize_for_filename(origin_id)), inp.size, inp.hash)

ProcessImageLabelled(d, pn, i, caption, origin_id_raw, inp, figs, last_hash) ==
    ProcessImageRendered(ImageRecord(d, pn, i, caption, origin_id_raw,
                                     OriginId(origin_id_raw, pn, i), inp),
                         inp, figs, last_hash)

ProcessImageCaptioned(d, pn, i, caption, inp, figs, last_hash) ==
    IF inp.fault = "caption" THEN Result("error", <<"caption">>, figs, last_hash)
    ELSE IF caption = <<>> THEN Result("no_caption", <<"caption">>, figs, last_hash)
    ELSE ProcessImageLabelled(d, pn, i, caption,
                              _extract_origin_id_from_caption(LabelAltsInadequate, caption),
                              inp, figs, last_hash)

\* the caption of lines 71-81 for image j of page k of the pool, tabulated
CaptionBelowTable ==
    [k \in 1..Len(PagePool) |->
        [j \in 1..Len(PagePool[k].images) |->
            CaptionBelow(PagePool[k].words, PagePool[k].images[j])]]

\* inadequate, lines 67-124: the body of the loop, for image i of page k of the pool
ProcessImage(d, k, pn, i, inp, figs, last_hash) ==
    ProcessImageCaptioned(d, pn, i, CaptionBelowTable[k][i], inp, figs, last_hash)

-----------------------------------------------------------------------------
(* The main program: for f in os.listdir(PDF_DIR): process_pdf(f) *)

NoStep == [outcome |-> "none", trace |-> <<>>, page |-> 0, idx |-> 0]

\* the loop items of the current page: candidates (excessive) or page.images
PageItems(v, pg) == IF v = "excessive" THEN PageCandidates(pg) ELSE pg.images

MergeIdle == boxes = <<>> /\ candidates = <<>> /\ absorbed = <<>>
PickIdle == cap_cands = <<>> /\ cap_best = None
CtxIdle == sentences = <<>> /\ ctx_fig = None /\ ctx_out = None
ClusterIdle ==
    primitives = <<>> /\ clusters = <<>> /\ members = <<>> /\ graphic_boxes = None
ClassIdle == cls_in = None /\ cls_out = None
NameIdle == fname_in = None /\ fname_out = None
RerunIdle == run_doc = None /\ run_out = <<>> /\ disk = {}
SearchIdle == cap_page = None
FilesIdle == out_files = {}
MoreIdle == ClusterIdle /\ ClassIdle /\ NameIdle /\ RerunIdle /\ SearchIdle /\ FilesIdle
PipeIdle ==
    /\ variant = "excessive" /\ pc = "idle" /\ doc = 0 /\ page_num = 0 /\ idx = 0
    /\ page = 0 /\ figures = <<>> /\ kept_hashes = <<>> /\ last_kept_hash = None
    /\ written = {} /\ failed = {} /\ last = NoStep

Init ==
    /\ variant \in {"excessive", "inadequate"}
    /\ pc = "main" /\ doc = 1 /\ page_num = 0 /\ idx = 0 /\ page = 0
    /\ figures = <<>> /\ kept_hashes = <<>> /\ last_kept_hash = None
    /\ written = {} /\ failed = {} /\ last = NoStep
    /\ MergeIdle /\ PickIdle /\ CtxIdle /\ MoreIdle

\* variation: the ledger is kept from one document to the next
OpenDocument_LedgerKept ==
    /\ pc = "main" /\ doc <= NumDocs
    /\ pc' = "page" /\ page_num' = 1 /\ idx' = 0 /\ page' = 0
    /\ figures' = <<>> /\ last' = NoStep
    /\ UNCHANGED <<variant, doc, written, failed, kept_hashes, last_kept_hash>>
    /\ UNCHANGED <<mergeVars, pickVars, ctxVars, moreVars>>

\* process_pdf starts: extract_text and pdfplumber.open succeed
OpenDocument ==
    /\ pc = "main" /\ doc <= NumDocs
    /\ pc' = "page" /\ page_num' = 1 /\ idx' = 0 /\ page' = 0
    /\ figures' = <<>> /\ kept_hashes' = <<>> /\ last_kept_hash' = None
    /\ last' = NoStep
    /\ UNCHANGED <<variant, doc, written, failed>>
    /\ UNCHANGED <<mergeVars, pickVars, ctxVars, moreVars>>

\* PdfReader or pdfplumber.open raises: nothing catches it in process_pdf or in
\* the loop of the main program, the interpreter exits
DocumentFails ==
    /\ pc = "main" /\ doc <= NumDocs
    /\ pc' = "crashed" /\ failed' = failed \cup {doc}
    /\ last' = [outcome |-> "doc_error", trace |-> <<>>, page |-> 0, idx |-> 0]
    /\ UNCHANGED <<variant, doc, page_num, idx, page, figures, kept_hashes, last_kept_hash,
                   written>>
    /\ UNCHANGED <<mergeVars, pickVars, ctxVars, moreVars>>

\* the head of the page loop: words, images and graphic boxes are read
StartPage ==
    /\ pc = "page" /\ page_num <= NumPages
    /\ \E k \in 1..Len(PagePool) :
          IF PageItems(variant, PagePool[k]) = <<>>
          THEN /\ page_num' = page_num + 1
               /\ UNCHANGED <<pc, idx, page>>
          ELSE /\ pc' = "cand" /\ page' = k /\ idx' = 1
               /\ UNCHANGED page_num
    /\ last' = NoStep
    /\ UNCHANGED <<variant, doc, figures, kept_hashes, last_kept_hash, written, failed>>
    /\ UNCHANGED <<mergeVars, pickVars, ctxVars, moreVars>>

\* extract_words, page.images or _gather_graphic_boxes raises: these calls are
\* outside the try of the candidate loop, the exception leaves process_pdf
PageFails ==
    /\ pc = "page" /\ page_num <= NumPages
    /\ pc' = "crashed" /\ failed' = failed \cup {doc}
    /\ last' = [outcome |-> "page_error", trace |-> <<>>, page |-> page_num, idx |-> 0]
    /\ UNCHANGED <<variant, doc, page_num, idx, page, figures, kept_hashes, last_kept_hash,
                   written>>
    /\ UNCHANGED <<mergeVars, pickVars, ctxVars, moreVars>>

\* the loop advances: the next item of the page, or the next page
Advance(n) ==
    IF idx < n
    THEN idx' = idx + 1 /\ UNCHANGED <<pc, page_num, page>>
    ELSE pc' = "page" /\ page_num' = page_num + 1 /\ UNCHANGED <<idx, page>>

\* what the loop body did is recorded for observation
Observed(r) == [outcome |-> r.outcome, trace |-> r.trace, page |-> page_num, idx |-> idx]

\* excessive: one candidate, whose processing gives r
CandidateDone(r) ==
    /\ figures' = r.figures
    /\ kept_hashes' = r.ledger
    /\ last' = Observed(r)
    /\ Advance(Len(PageCandidates(PagePool[page])))

CandidateStep ==
    /\ pc = "cand" /\ variant = "excessive"
    /\ \E inp \in CandInputs(variant) :
          CandidateDone(ProcessCandidate(doc, page, page_num, idx, inp, figures, kept_hashes))
    /\ UNCHANGED <<variant, doc, last_kept_hash, written, failed>>
    /\ UNCHANGED <<mergeVars, pickVars, ctxVars, moreVars>>

\* inadequate: one image, whose processing gives r
ImageDone(r) ==
    /\ figures' = r.figures
    /\ last_kept_hash' = r.ledger
    /\ last' = Observed(r)
    /\ Advance(Len(PagePool[page].images))

ImageStep ==
    /\ pc = "cand" /\ variant = "inadequate"
    /\ \E inp \in CandInputs(variant) :
          ImageDone(ProcessImage(doc, page, page_num, idx, inp, figures, last_kept_hash))
    /\ UNCHANGED <<variant, doc, kept_hashes, written, failed>>
    /\ UNCHANGED <<mergeVars, pickVars, ctxVars, moreVars>>

\* after the last page: find_contexts, then the JSON file is written
FinishDocument ==
    /\ pc = "page" /\ page_num > NumPages
    /\ \E sents \in DocTextPool : figures' = find_contexts(variant, figures, sents)
    /\ written' = written \cup {doc}
    /\ doc' = doc + 1 /\ pc' = "main"
    /\ last' = [outcome |-> "written", trace |-> <<>>, page |-> 0, idx |-> 0]
    /\ UNCHANGED <<variant, page_num, idx, page, kept_hashes, last_kept_hash, failed>>
    /\ UNCHANGED <<mergeVars, pickVars, ctxVars, moreVars>>

\* os.listdir is exhausted
Exit ==
    /\ pc = "main" /\ doc > NumDocs
    /\ pc' = "done"
    /\ UNCHANGED <<variant, doc, page_num, idx, page, figures, kept_hashes, last_kept_hash,
                   written, failed, last>>
    /\ UNCHANGED <<mergeVars, pickVars, ctxVars, moreVars>>

Next ==
    \/ OpenDocument
    \/ DocumentFails
    \/ StartPage
    \/ PageFails
    \/ CandidateStep
    \/ ImageStep
    \/ FinishDocument
    \/ Exit

Spec == Init /\ [][Next]_vars

-----------------------------------------------------------------------------
(* The Candidate Merger on its own: the boxes of one page are folded one by *)
(* one; absorbed[c] is the set of indices of the input boxes that candidate *)
(* c absorbed.                                                              *)

MaxBoxes == 3       \* input boxes of a page

\* boxes a page may hold: X, two boxes right of it that overlap each other (one
\* nearer than 10 to X, one not), a box below X, a box far from all
BoxPool == { <<0, 0, 100, 100>>, <<110, 0, 210, 100>>, <<105, 0, 205, 100>>,
             <<0, 105, 100, 205>>, <<400, 400, 500, 500>> }

BoxLists == UNION {[1..n -> BoxPool] : n \in 1..MaxBoxes}

\* number of input boxes folded so far
RECURSIVE SumCard(_)
SumCard(sets) == IF sets = <<>> THEN 0 ELSE Cardinality(sets[1]) + SumCard(Tail(sets))
Folded == SumCard(absorbed)

InitMerge ==
    /\ boxes \in BoxLists /\ candidates = <<>> /\ absorbed = <<>>
    /\ PipeIdle /\ PickIdle /\ CtxIdle /\ MoreIdle

\* one iteration of the loop of lines 330-343
FoldStep ==
    /\ Folded < Len(boxes)
    /\ candidates' = FoldBox(candidates, boxes[Folded + 1])
    /\ absorbed' = IF AbsorbingIndex(candidates, boxes[Folded + 1]) = 0
                   THEN Append(absorbed, {Folded + 1})
                   ELSE [absorbed EXCEPT ![AbsorbingIndex(candidates, boxes[Folded + 1])]
                                             = @ \cup {Folded + 1}]
    /\ UNCHANGED <<boxes, pipeVars, pickVars, ctxVars, moreVars>>

NextMerge == FoldStep

SpecMerge == InitMerge /\ [][NextMerge]_vars

-----------------------------------------------------------------------------
(* _pick_best_caption on its own *)

MaxExtra == 1       \* lengths within MaxExtra of the places where the score changes

\* a text of n characters, with or without a label at its start
LabelledStart == <<"F","i","g","u","r","e"," ","1"," ">>
TextOfLen(n, labelled) ==
    IF labelled THEN LabelledStart \o [i \in 1..(n - Len(LabelledStart)) |-> "x"]
    ELSE [i \in 1..n |-> "x"]

LenPool == {CAPTION_MIN_LEN + 1} \cup {260 + k : k \in (-MaxExtra)..MaxExtra}
           \cup {5260 + k : k \in (-MaxExtra)..MaxExtra}
DistPool == {0, 30}
CaptionItems == {<<TextOfLen(n, l), dd>> : n \in LenPool, l \in BOOLEAN, dd \in DistPool}

InitPick ==
    /\ cap_cands \in [1..2 -> CaptionItems] /\ cap_best = None
    /\ PipeIdle /\ MergeIdle /\ CtxIdle /\ MoreIdle

PickBest ==
    /\ cap_best = None
    /\ cap_best' = <<_pick_best_caption(cap_cands)>>
    /\ UNCHANGED <<cap_cands, pipeVars, mergeVars, ctxVars, moreVars>>

NextPick == PickBest

SpecPick == InitPick /\ [][NextPick]_vars

-----------------------------------------------------------------------------
(* find_contexts on its own, for one figure record *)

MaxSentences == 9   \* sentences of the full text

SentPool == {SentPlain, SentFigure1}
SentenceLists == UNION {[1..n -> SentPool] : n \in 0..MaxSentences}

\* the record of a figure labelled "Figure 1."
FigureOne ==
    [figure_id |-> <<"F","i","g","u","r","e"," ","1">>,
     origin_id |-> <<"F","I","G","U","R","E"," ","1">>, page |-> 1,
     caption |-> <<"F","i","g","u","r","e"," ","1",".">>,
     image_path |-> ImagePath(1, 1, <<"F","I","G","U","R","E"," ","1">>),
     width |-> 200, height |-> 100, phash |-> HashToStr(PrefixHash(0))]

InitCtx ==
    /\ sentences \in SentenceLists /\ ctx_fig = <<FigureOne>> /\ ctx_out = None
    /\ variant \in {"excessive", "inadequate"}
    /\ pc = "idle" /\ doc = 0 /\ page_num = 0 /\ idx = 0 /\ page = 0
    /\ figures = <<>> /\ kept_hashes = <<>> /\ last_kept_hash = None
    /\ written = {} /\ failed = {} /\ last = NoStep
    /\ MergeIdle /\ PickIdle /\ MoreIdle

\* one iteration of  for fig in figures: ranges and merged, the local lists, are
\* kept beside the record
FindContextsStep ==
    /\ ctx_out = None
    /\ ctx_out' = << [fig |-> find_contexts(variant, ctx_fig, sentences)[1],
                     ranges |-> RawRanges(MatchingIndices(variant, ctx_fig[1], sentences),
                                          0, Len(sentences)),
                     merged |-> ContextRanges(
                                    MatchingIndices(variant, ctx_fig[1], sentences),
                                    Len(sentences))] >>
    /\ UNCHANGED <<sentences, ctx_fig, pipeVars, mergeVars, pickVars, moreVars>>

NextCtx == FindContextsStep

SpecCtx == InitCtx /\ [][NextCtx]_vars

-----------------------------------------------------------------------------
(* Graphic Clusterer: _gather_graphic_boxes.  A primitive is [box, kind],    *)
(* kind being "lines", "rects" or "curves"; a cluster is [box, st].          *)

Kinds == <<"lines", "rects", "curves">>

\* the stat of one primitive of a kind
KindStat(kind) ==
    [lines |-> IF kind = "lines" THEN 1 ELSE 0,
     rects |-> IF kind = "rects" THEN 1 ELSE 0,
     curves |-> IF kind = "curves" THEN 1 ELSE 0]

\* new_stat of lines 256-260
AddStat(cstat, stat) ==
    [lines |-> cstat.lines + stat.lines, rects |-> cstat.rects + stat.rects,
     curves |-> cstat.curves + stat.curves]

\* _bbox_dist(ex_bbox, cb) <= MERGE_DIST, with ex_bbox = _bbox_expand(bbox, MERGE_DIST)
ClusterNear(bbox, cb) ==
    _bbox_dist_sq(_bbox_expand(bbox, MERGE_DIST), cb) <= MERGE_DIST * MERGE_DIST

\* index of the cluster the primitive joins (the first one near it), or 0
JoinedCluster(cls, bbox) ==
    LET hits == {i \in 1..Len(cls) : ClusterNear(bbox, cls[i].box)} IN
    IF hits = {} THEN 0 ELSE CHOOSE i \in hits : \A j \in hits : i <= j

\* variation: the cluster grows by the expanded box of the primitive
ClusterPrimitive_Expanded(cls, prim) ==
    LET i == JoinedCluster(cls, prim.box) IN
    IF i = 0 THEN Append(cls, [box |-> prim.box, st |-> KindStat(prim.kind)])
    ELSE [cls EXCEPT ![i] = [box |-> _bbox_union(cls[i].box, _bbox_expand(prim.box, MERGE_DIST)),
                             st |-> AddStat(cls[i].st, KindStat(prim.kind))]]

\* one iteration of  for bbox, stat in primitives  (lines 250-265)
ClusterPrimitive(cls, prim) ==
    LET i == JoinedCluster(cls, prim.box) IN
    IF i = 0 THEN Append(cls, [box |-> prim.box, st |-> KindStat(prim.kind)])
    ELSE [cls EXCEPT ![i] = [box |-> _bbox_union(cls[i].box, prim.box),
                             st |-> AddStat(cls[i].st, KindStat(prim.kind))]]

\* lines 266-270: the clusters of at least MIN_GRAPHIC_W x MIN_GRAPHIC_H
SizeQualified(cls) ==
    SelectSeq(cls, LAMBDA c : /\ c.box[3] - c.box[1] >= MIN_GRAPHIC_W
                              /\ c.box[4] - c.box[2] >= MIN_GRAPHIC_H)

MaxPrims == 3       \* primitives of a page

\* boxes of primitives: three horizontal strokes at y = 0, 30 and 20 (the third
\* is near both others, which are not near each other), a large frame far away
\* and a stroke near the frame
PrimBoxPool == { <<0, 0, 50, 0>>, <<0, 30, 50, 30>>, <<0, 20, 50, 20>>,
                 <<200, 200, 400, 300>>, <<200, 320, 400, 320>> }

\* page.lines + page.rects + page.curves: the kinds come in that order
PrimLists ==
    UNION { {p \in [1..n -> [box : PrimBoxPool, kind : {"lines", "rects", "curves"}]] :
                \A a, b \in 1..n :
                    a < b => \E x, y \in 1..3 :
                                 x <= y /\ Kinds[x] = p[a].kind /\ Kinds[y] = p[b].kind}
            : n \in 1..MaxPrims }

\* number of primitives clustered so far
Clustered == SumCard(members)

InitCluster ==
    /\ primitives \in PrimLists /\ clusters = <<>> /\ members = <<>>
    /\ graphic_boxes = None
    /\ PipeIdle /\ MergeIdle /\ PickIdle /\ CtxIdle
    /\ ClassIdle /\ NameIdle /\ RerunIdle /\ SearchIdle /\ FilesIdle

\* one iteration of the loop of lines 250-265
ClusterStep ==
    /\ Clustered < Len(primitives)
    /\ clusters' = ClusterPrimitive(clusters, primitives[Clustered + 1])
    /\ members' = IF JoinedCluster(clusters, primitives[Clustered + 1].box) = 0
                  THEN Append(members, {Clustered + 1})
                  ELSE [members EXCEPT ![JoinedCluster(clusters,
                                                       primitives[Clustered + 1].box)]
                                           = @ \cup {Clustered + 1}]
    /\ UNCHANGED <<primitives, graphic_boxes>>
    /\ UNCHANGED <<pipeVars, mergeVars, pickVars, ctxVars, classVars, nameVars, rerunVars>>
    /\ UNCHANGED <<searchVars, fileVars>>

\* lines 266-271: the size filter and the return
ReturnBoxes ==
    /\ Clustered = Len(primitives) /\ graphic_boxes = None
    /\ graphic_boxes' = <<SizeQualified(clusters)>>
    /\ UNCHANGED <<primitives, clusters, members>>
    /\ UNCHANGED <<pipeVars, mergeVars, pickVars, ctxVars, classVars, nameVars, rerunVars>>
    /\ UNCHANGED <<searchVars, fileVars>>

NextCluster == ClusterStep \/ ReturnBoxes

SpecCluster == InitCluster /\ [][NextCluster]_vars

-----------------------------------------------------------------------------
(* The Content Classifier on its own: lines 368-377 for one clipped         *)
(* candidate that passed the size filter.                                   *)

MaxClusters == 2    \* size-qualified graphic clusters of the page

\* the clipped candidate, 200 x 100
ClassBox == <<100, 400, 300, 500>>

\* words inside the candidate: none, one of 55% of its area, one of 60%
ClassWordsPool ==
    { <<>>, << Word(<<"L","o","r","e","m">>, 100, 300, 420, 475) >>, TextBlock }

\* clusters right of the candidate, at distance 4 and at distance 5, with
\* stats at and below the thresholds of the override
ClassClusterPool ==
    [box : { <<304, 400, 504, 500>>, <<305, 400, 505, 500>> },
     st : { [lines |-> 6, rects |-> 0, curves |-> 0], [lines |-> 5, rects |-> 0, curves |-> 1],
            [lines |-> 0, rects |-> 3, curves |-> 0], [lines |-> 5, rects |-> 2, curves |-> 0] }]

InitClass ==
    /\ cls_in \in { <<[clipped |-> ClassBox, words |-> w, edge |-> e, graphics |-> g]>> :
                       w \in ClassWordsPool, e \in EdgePool,
                       g \in UNION {[1..n -> ClassClusterPool] : n \in 0..MaxClusters} }
    /\ cls_out = None
    /\ PipeIdle /\ MergeIdle /\ PickIdle /\ CtxIdle
    /\ ClusterIdle /\ NameIdle /\ RerunIdle /\ SearchIdle /\ FilesIdle

\* lines 369-375: the hint is looked up, the scores are taken, the verdict is given
Classify ==
    /\ cls_out = None
    /\ cls_out' = << [stats_hint |-> StatsHint(cls_in[1].graphics, cls_in[1].clipped),
                      plain_text |-> _looks_like_plain_text(
                                         TextArea(cls_in[1].words, cls_in[1].clipped),
                                         ScoreArea(cls_in[1].clipped), cls_in[1].edge,
                                         StatsHint(cls_in[1].graphics, cls_in[1].clipped))] >>
    /\ UNCHANGED cls_in
    /\ UNCHANGED <<pipeVars, mergeVars, pickVars, ctxVars, clusterVars, nameVars, rerunVars>>
    /\ UNCHANGED <<searchVars, fileVars>>

NextClass == Classify

SpecClass == InitClass /\ [][NextClass]_vars

-----------------------------------------------------------------------------
(* Stage 2 reads the image names of stage 1: parse_image_filename of        *)
(* src/2.figTo4bgImg.py applied to the name built at line 391 of stage 1.   *)

\* int(m.group("page"))
RECURSIVE StrToInt(_)
StrToInt(s) ==
    IF s = <<>> THEN 0
    ELSE 10 * StrToInt(SubSeq(s, 1, Len(s) - 1))
         + ((CHOOSE v \in 1..10 : DigitChars[v] = s[Len(s)]) - 1)

\* FILENAME_RE matches with group pdf = fname[1..q]:  _p, digits, _, anything, .png
\* at the end (re.IGNORECASE).  \d+ must take the whole run of digits, as the
\* character after it has to be "_".
FilenameMatchAt(fname, q) ==
    /\ StartsWithCI(fname, q + 1, <<"_", "p">>)
    /\ DigitsEnd(fname, q + 3) > q + 3
    /\ DigitsEnd(fname, q + 3) <= Len(fname)
    /\ fname[DigitsEnd(fname, q + 3)] = "_"
    /\ Len(fname) - 3 > DigitsEnd(fname, q + 3)
    /\ StartsWithCI(fname, Len(fname) - 3, <<".", "p", "n", "g">>)

\* parse_image_filename: (pdf_stem, page_num), the group pdf being the shortest
\* prefix with which the pattern matches (.+? is lazy)
parse_image_filename(fname) ==
    LET hits == {q \in 1..Len(fname) : FilenameMatchAt(fname, q)} IN
    IF hits = {} THEN <<None, None>>
    ELSE LET q == CHOOSE h \in hits : \A g \in hits : h <= g
         IN <<Strip(SubSeq(fname, 1, q)),
              StrToInt(SubSeq(fname, q + 3, DigitsEnd(fname, q + 3) - 1))>>

MaxPageNo == 12     \* page numbers of a document

\* stems of PDF files: plain ones, and two that hold a fragment _p<digits>_
StemPool == { Stem(1), <<"m","y","_","p","a","p","e","r">>,
              <<"a","_","p","3","_","b">>, <<"q","_","P","7","_","r">> }

\* file tails: a label, a synthetic id (FIG_P<page>_<idx>), a dotted label,
\* and one that holds a fragment _p<digits>_
TailPool == { <<"F","I","G","U","R","E"," ","1">>, SyntheticId(<<"F","I","G","_","P">>, 2, 1),
              <<"T","A","B","L","E"," ","2",".","1">>, <<"X","_","p","9","_","Y">> }

InitName ==
    /\ fname_in \in { <<[stem |-> st, page |-> pn, tail |-> tl]>> :
                         st \in StemPool, pn \in 1..MaxPageNo, tl \in TailPool }
    /\ fname_out = None
    /\ PipeIdle /\ MergeIdle /\ PickIdle /\ CtxIdle
    /\ ClusterIdle /\ ClassIdle /\ RerunIdle /\ SearchIdle /\ FilesIdle

\* stage 1 writes the image under its name, stage 2 parses the name
WriteAndParse ==
    /\ fname_out = None
    /\ fname_out' = << [name |-> ImageName(fname_in[1].stem, fname_in[1].page,
                                            fname_in[1].tail),
                        parsed |-> parse_image_filename(
                                       ImageName(fname_in[1].stem, fname_in[1].page,
                                                 fname_in[1].tail))] >>
    /\ UNCHANGED fname_in
    /\ UNCHANGED <<pipeVars, mergeVars, pickVars, ctxVars, clusterVars, classVars, rerunVars>>
    /\ UNCHANGED <<searchVars, fileVars>>

NextName == WriteAndParse

SpecName == InitName /\ [][NextName]_vars

-----------------------------------------------------------------------------
(* process_pdf run again on the same document: the document is one page of  *)
(* the pool with what the renderer and the hash function return for each of *)
(* its candidates, and its sentences; disk is what earlier runs left.       *)

NumRuns == 2        \* runs of process_pdf on the document

\* variation: saving raises when the file is already there
SaveRaises_IfExists(img_path, files) == img_path \in files

\* pil_img.save(img_path, format="PNG") opens the file for writing: a file
\* left by an earlier run is overwritten, its presence raises nothing
SaveRaises(img_path, files) == FALSE

\* what the document gives for one candidate (no fault but of the document's own)
RunInputs ==
    [size : {<<150, 90>>, <<200, 100>>}, edge : {9},
     hash : {PrefixHash(0), PrefixHash(HashBits)}, fault : {"none", "render"}]

RunDocs ==
    UNION { { [v |-> v, page |-> k, inps |-> f, sents |-> t] :
                 f \in [1..Len(PageItems(v, PagePool[k])) -> RunInputs], t \in DocTextPool }
            : v \in {"excessive", "inadequate"}, k \in 1..Len(PagePool) }

\* the loop body for item i, the save of line 395 / 107 looking at the files present
RunItem(dc, i, figs, ledger, files) ==
    LET r == IF dc.v = "excessive"
             THEN ProcessCandidate(1, dc.page, 1, i, dc.inps[i], figs, ledger)
             ELSE ProcessImage(1, dc.page, 1, i, dc.inps[i], figs, ledger)
    IN IF r.outcome = "accepted" /\ SaveRaises(r.figures[Len(r.figures)].image_path, files)
       THEN Result("error", r.trace, figs, ledger)
       ELSE r

\* extract_images_and_captions from item i on
RECURSIVE RunItems(_, _, _, _, _)
RunItems(dc, i, figs, ledger, files) ==
    IF i > Len(dc.inps) THEN figs
    ELSE RunItems(dc, i + 1, RunItem(dc, i, figs, ledger, files).figures,
                  RunItem(dc, i, figs, ledger, files).ledger, files)

\* figures of process_pdf: extraction with a fresh record list and a fresh
\* ledger (lines 313-315 / 60-62), then find_contexts
RunFigures(dc, files) ==
    find_contexts(dc.v,
                  RunItems(dc, 1, <<>>, IF dc.v = "excessive" THEN <<>> ELSE None, files),
                  dc.sents)

\* out_json of line 463
JsonPath(d) == OutDir(d) \o <<"/">> \o Stem(d) \o <<".","j","s","o","n">>

InitRerun ==
    /\ run_doc \in {<<dc>> : dc \in RunDocs} /\ run_out = <<>> /\ disk = {}
    /\ PipeIdle /\ MergeIdle /\ PickIdle /\ CtxIdle
    /\ ClusterIdle /\ ClassIdle /\ NameIdle /\ SearchIdle /\ FilesIdle

\* one call of process_pdf: os.makedirs(out_dir, exist_ok=True), the images
\* are saved, the JSON file is opened with "w" and written
ProcessPdf ==
    /\ Len(run_out) < NumRuns
    /\ run_out' = Append(run_out, RunFigures(run_doc[1], disk))
    /\ disk' = disk \cup {OutDir(1), JsonPath(1)}
                    \cup {RunFigures(run_doc[1], disk)[k].image_path :
                             k \in 1..Len(RunFigures(run_doc[1], disk))}
    /\ UNCHANGED run_doc
    /\ UNCHANGED <<pipeVars, mergeVars, pickVars, ctxVars, clusterVars, classVars, nameVars>>
    /\ UNCHANGED <<searchVars, fileVars>>

NextRerun == ProcessPdf

SpecRerun == InitRerun /\ [][NextRerun]_vars

-----------------------------------------------------------------------------
(* The loop of extract_images_and_captions over a page on which several     *)
(* items find the same caption.  The page is the first one of the first     *)
(* document (it is not in PagePool, page stays 0); out_files is the output  *)
(* directory, a set of [path, data] with one entry per path, data being the *)
(* phash of the image that the last save under the path wrote.              *)

\* the text line "Table 2. Results listed." at the height 515
TableLine ==
    << Word(<<"T","a","b","l","e">>, 100, 130, 515, 525),
       Word(<<"2",".">>, 133, 141, 515, 525),
       Word(<<"R","e","s","u","l","t","s">>, 144, 180, 515, 525),
       Word(<<"l","i","s","t","e","d",".">>, 183, 215, 515, 525) >>

\* three raster images: A, B right of A and D below A; the line "Figure 1.
\* System overview." lies between A and D, the table line far below D
SharedPage ==
    [w |-> 612, h |-> 792, words |-> CaptionLine \o TableLine,
     images |-> << <<100, 100, 300, 250>>, <<320, 100, 520, 250>>, <<100, 270, 300, 420>> >>,
     graphics |-> <<>>]

\* clipped of line 349 for candidate j of the page
SharedClipped(j) ==
    _clip_to_page(PageCandidates(SharedPage)[j], <<0, 0, SharedPage.w, SharedPage.h>>)

\* the caption of line 354 (excessive) and of lines 71-81 (inadequate) for item j
SharedCaptions ==
    [j \in 1..Len(PageCandidates(SharedPage)) |->
        _find_caption_four_directions(SharedPage.w, SharedPage.h, SharedPage.words,
                                      SharedClipped(j))]
SharedCaptionsBelow ==
    [j \in 1..Len(SharedPage.images) |-> CaptionBelow(SharedPage.words, SharedPage.images[j])]

\* what the renderer and the hash function return for an item, and where it raises
SharedInputs ==
    [size : {<<150, 90>>, <<200, 100>>}, edge : {10}, hash : HashPool,
     fault : {"none", "hash", "save"}]

\* the loop body for item i of the page
SharedResult(v, d, pn, i, inp, figs, ledger) ==
    IF v = "excessive"
    THEN ProcessCaptioned(d, SharedPage, pn, i, SharedClipped(i), SharedCaptions[i],
                          inp, figs, ledger)
    ELSE ProcessImageCaptioned(d, pn, i, SharedCaptionsBelow[i], inp, figs, ledger)

\* img_path of lines 385-392 (excessive) and 87-90 (inadequate) for item i
SharedPath(v, d, pn, i) ==
    IF v = "excessive"
    THEN ImagePath(d, pn,
             FileTail(_normalize_label_for_filename(SharedCaptions[i]),
                      OriginId(IF SharedCaptions[i] # <<>>
                               THEN _extract_origin_id_from_caption(LabelAlts, SharedCaptions[i])
                               ELSE <<>>, pn, i)))
    ELSE ImagePath(d, pn,
             _sanitize_for_filename(
                 OriginId(_extract_origin_id_from_caption(LabelAltsInadequate,
                                                          SharedCaptionsBelow[i]), pn, i)))

\* pil_img.save(img_path, format="PNG"): the file is created or overwritten
Saved(dir, img_path, data) ==
    {f \in dir : f.path # img_path} \cup {[path |-> img_path, data |-> data]}

\* the output directory after the loop body gave r: an accepted item wrote its
\* image; a save that raised left the directory as it was or left a file
\* without an image under the path
FilesAfter(dir, r, img_path, cur_hash, wrote) ==
    IF r.outcome = "accepted" THEN Saved(dir, img_path, HashToStr(cur_hash))
    ELSE IF r.outcome = "error" /\ r.trace[Len(r.trace)] = "save" /\ wrote
    THEN Saved(dir, img_path, <<>>)
    ELSE dir

InitShared ==
    /\ variant \in {"excessive", "inadequate"}
    /\ pc = "cand" /\ doc = 1 /\ page_num = 1 /\ idx = 1 /\ page = 0
    /\ figures = <<>> /\ kept_hashes = <<>> /\ last_kept_hash = None
    /\ written = {} /\ failed = {} /\ last = NoStep
    /\ MergeIdle /\ PickIdle /\ CtxIdle
    /\ ClusterIdle /\ ClassIdle /\ NameIdle /\ RerunIdle /\ SearchIdle
    /\ out_files = {}

\* one item of the page, whose processing gives r; the hash of the rendering
\* is recorded with what the body did
SharedDone(r, inp, wrote) ==
    /\ figures' = r.figures
    /\ IF variant = "excessive"
       THEN kept_hashes' = r.ledger /\ UNCHANGED last_kept_hash
       ELSE last_kept_hash' = r.ledger /\ UNCHANGED kept_hashes
    /\ last' = [outcome |-> r.outcome, trace |-> r.trace, page |-> page_num, idx |-> idx,
                hash |-> inp.hash]
    /\ out_files' = FilesAfter(out_files, r, SharedPath(variant, doc, page_num, idx),
                               inp.hash, wrote)
    /\ Advance(Len(SharedPage.images))

SharedStep ==
    /\ pc = "cand"
    /\ \E inp \in SharedInputs, wrote \in BOOLEAN :
          SharedDone(SharedResult(variant, doc, page_num, idx, inp, figures,
                                  IF variant = "excessive" THEN kept_hashes
                                  ELSE last_kept_hash),
                     inp, wrote)
    /\ UNCHANGED <<variant, doc, written, failed>>
    /\ UNCHANGED <<mergeVars, pickVars, ctxVars>>
    /\ UNCHANGED <<clusterVars, classVars, nameVars, rerunVars, searchVars>>

NextShared == SharedStep

SpecShared == InitShared /\ [][NextShared]_vars

-----------------------------------------------------------------------------
(* _find_caption_four_directions on its own: one box, and on each of its    *)
(* four sides no text or one text of one word at some gap from the box.     *)

NumGaps == 2        \* gaps between the box and a text

\* the clipped candidate
SearchBox == <<200, 300, 400, 450>>

\* the gaps: 5, 35, ...
GapPool == {5 + 30 * k : k \in 0..(NumGaps - 1)}

\* what lies on a side: nothing, or a text (plain, with a label, or plain and
\* longer than 260 characters) at a gap
Placements ==
    { <<>> } \cup { <<[kind |-> kd, gap |-> g]>> : kd \in {"plain", "label"}, g \in GapPool }
             \cup { <<[kind |-> "long", gap |-> 5]>> }

\* the text of a kind on a side; it names the side
PlacedText(side, kind) ==
    LET name == CASE side = "bottom" -> <<"b","o","t","t","o","m">>
                  [] side = "top"    -> <<"t","o","p","p","e","d">>
                  [] side = "right"  -> <<"r","i","g","h","t","s">>
                  [] side = "left"   -> <<"l","e","f","t","e","d">>
    IN CASE kind = "plain" -> name \o <<"t","e","x","t">>
         [] kind = "label" -> <<"F","i","g","u","r","e","1">> \o name
         [] kind = "long"  -> name \o [i \in 1..260 |-> "x"]

\* the word of a text on a side of the box, gap away from the box's edge
PlacedWord(side, pl, b) ==
    CASE side = "bottom" -> Word(PlacedText(side, pl.kind), 250, 270, b[4] + pl.gap, b[4] + pl.gap + 10)
      [] side = "top"    -> Word(PlacedText(side, pl.kind), 250, 270, b[2] - pl.gap - 10, b[2] - pl.gap)
      [] side = "right"  -> Word(PlacedText(side, pl.kind), b[3] + pl.gap, b[3] + pl.gap + 20, 350, 360)
      [] side = "left"   -> Word(PlacedText(side, pl.kind), b[1] - pl.gap - 20, b[1] - pl.gap, 350, 360)

\* page.extract_words for the placements
RECURSIVE PlacedWords(_, _, _)
PlacedWords(placed, k, b) ==
    IF k > Len(SideNames) THEN <<>>
    ELSE (IF placed[SideNames[k]] = <<>> THEN <<>>
          ELSE <<PlacedWord(SideNames[k], placed[SideNames[k]][1], b)>>)
         \o PlacedWords(placed, k + 1, b)

InitSearch ==
    /\ cap_page \in { <<[w |-> 612, h |-> 792, bbox |-> SearchBox, placed |-> p,
                         words |-> PlacedWords(p, 1, SearchBox)]>> :
                         p \in [{"bottom", "top", "right", "left"} -> Placements] }
    /\ cap_cands = <<>> /\ cap_best = None
    /\ PipeIdle /\ MergeIdle /\ CtxIdle
    /\ ClusterIdle /\ ClassIdle /\ NameIdle /\ RerunIdle /\ FilesIdle

\* caption = _find_caption_four_directions(page, words, clipped); the local
\* list candidates is kept beside the result
FindCaption ==
    /\ cap_best = None
    /\ cap_cands' = CaptionCandidates(cap_page[1].w, cap_page[1].h, cap_page[1].words,
                                      cap_page[1].bbox)
    /\ cap_best' = <<_find_caption_four_directions(cap_page[1].w, cap_page[1].h,
                                                   cap_page[1].words, cap_page[1].bbox)>>
    /\ UNCHANGED cap_page
    /\ UNCHANGED <<pipeVars, mergeVars, ctxVars>>
    /\ UNCHANGED <<clusterVars, classVars, nameVars, rerunVars, fileVars>>

NextSearch == FindCaption

SpecSearch == InitSearch /\ [][NextSearch]_vars

-----------------------------------------------------------------------------
(* find_contexts for the record list of a document: two records, labelled   *)
(* as a figure or as a table or without label, and a text that refers to    *)
(* figures and to tables.                                                   *)

MaxRefs == 4        \* sentences of the full text

SentFigure2 == <<"S","e","e"," ","F","i","g","u","r","e"," ","2",".">>
SentTable2 == <<"T","a","b","l","e"," ","2"," ","l","i","s","t","s"," ","i","t",".">>
RefSentPool == {SentPlain, SentFigure2, SentTable2}
RefSentenceLists == UNION {[1..n -> RefSentPool] : n \in 0..MaxRefs}

\* captions: of a figure, of a table, and one without number
CaptionFigure2 == <<"F","i","g","u","r","e"," ","2",".">>
CaptionTable2 == <<"T","a","b","l","e"," ","2",".">>
CaptionNoLabel == <<"F","i","g","u","r","e"," ","s","h","o","w","s"," ","i","t",".">>

\* page, index and caption of the items that gave the records
RefItems ==
    << [page |-> 5, idx |-> 1, caption |-> CaptionFigure2],
       [page |-> 5, idx |-> 2, caption |-> CaptionTable2],
       [page |-> 2, idx |-> 1, caption |-> CaptionNoLabel],
       [page |-> 3, idx |-> 2, caption |-> CaptionNoLabel] >>

\* the record that the extractor appends for an item (lines 356-358 and 385-411,
\* inadequate 85-122)
RefRecord(v, it) ==
    IF v = "excessive"
    THEN ProcessCaptioned(1, [w |-> 612, h |-> 792, words |-> <<>>, graphics |-> <<>>],
                          it.page, it.idx, <<100, 100, 300, 250>>, it.caption,
                          [size |-> <<200, 100>>, edge |-> 10, hash |-> PrefixHash(0),
                           fault |-> "none"], <<>>, <<>>).figures[1]
    ELSE ProcessImageCaptioned(1, it.page, it.idx, it.caption,
                               [size |-> <<200, 100>>, edge |-> 10, hash |-> PrefixHash(0),
                                fault |-> "none"], <<>>, None).figures[1]

InitRefs ==
    /\ variant \in {"excessive", "inadequate"}
    /\ ctx_fig \in UNION { { <<RefRecord(variant, RefItems[a]), RefRecord(variant, RefItems[b])>> :
                                b \in (a + 1)..Len(RefItems) } : a \in 1..Len(RefItems) }
    /\ sentences \in RefSentenceLists
    /\ ctx_out = None
    /\ pc = "idle" /\ doc = 0 /\ page_num = 0 /\ idx = 0 /\ page = 0
    /\ figures = <<>> /\ kept_hashes = <<>> /\ last_kept_hash = None
    /\ written = {} /\ failed = {} /\ last = NoStep
    /\ MergeIdle /\ PickIdle /\ MoreIdle

\* find_contexts(figures, full_text): ranges and merged, the local lists of
\* each iteration, are kept beside the record
FindContextsAll ==
    /\ ctx_out = None
    /\ ctx_out' = [k \in 1..Len(ctx_fig) |->
                      [fig |-> find_contexts(variant, ctx_fig, sentences)[k],
                       ranges |-> RawRanges(MatchingIndices(variant, ctx_fig[k], sentences),
                                            0, Len(sentences)),
                       merged |-> ContextRanges(
                                      MatchingIndices(variant, ctx_fig[k], sentences),
                                      Len(sentences))]]
    /\ UNCHANGED <<sentences, ctx_fig, pipeVars, mergeVars, pickVars, moreVars>>

NextRefs == FindContextsAll

SpecRefs == InitRefs /\ [][NextRefs]_vars

-----------------------------------------------------------------------------
(* Properties *)

\* C1: with the ledger of all kept hashes (excessive), any two records of a
\* document differ in more than HASH_THRESHOLD bits of their perceptual hash.
C1_KeptPairwiseFar ==
    variant = "excessive" =>
        \A i, j \in 1..Len(figures) :
            i # j => Hamming(StrToHash(figures[i].phash), StrToHash(figures[j].phash))
                     > HASH_THRESHOLD

\* two records are kept and a further candidate was just rejected as a duplicate
C1_Witness ==
    variant = "excessive" /\ Len(figures) = 2 /\ last.outcome = "duplicate"

\* C2: every record has width >= MIN_IMG_WIDTH and height >= MIN_IMG_HEIGHT, in
\* both variants: a rendering that is too narrow or too short gives no record.
C2_RecordsNotSmall ==
    \A i \in 1..Len(figures) :
        figures[i].width >= MIN_IMG_WIDTH /\ figures[i].height >= MIN_IMG_HEIGHT

\* a rendering below the minimum was just skipped, after a record was kept
C2_Witness == last.outcome = "small" /\ figures # <<>>

\* C4: when the program has ended, every document whose processing did not
\* raise has its result written: a failing document does not stop the others.
C4_SiblingsStillProcessed ==
    pc \in {"done", "crashed"} =>
        \A d \in 1..NumDocs : d \notin failed => d \in written

\* C5: after the enumeration of a page's primitives failed, the pipeline is at
\* the head of the following page of the same document.
C5_PageFailureContained ==
    last.outcome = "page_error" => pc = "page" /\ page_num = last.page + 1

\* C6: an iteration of the candidate loop that raises changes neither the
\* records nor the ledger, and the loop goes on with the next candidate of the
\* page, or with the next page after the last candidate.
C6_CandidateErrorIsolated ==
    [][(pc = "cand" /\ last'.outcome = "error") =>
          /\ figures' = figures
          /\ kept_hashes' = kept_hashes
          /\ last_kept_hash' = last_kept_hash
          /\ \/ pc' = "cand" /\ idx' = idx + 1 /\ page_num' = page_num /\ page' = page
             \/ /\ idx = Len(PageItems(variant, PagePool[page]))
                /\ pc' = "page" /\ page_num' = page_num + 1]_vars

\* the save of a candidate just failed, records were kept before it and a
\* further candidate of the page is next
C6_Witness ==
    /\ variant = "excessive" /\ last.outcome = "error" /\ last.trace[Len(last.trace)] = "save"
    /\ figures # <<>> /\ kept_hashes # <<>> /\ pc = "cand"

\* C7 as stated: for a candidate skipped as too small, none of the caption
\* search, the classifier and the hash computation ran.
C7_SmallBeforeCaption ==
    (variant = "excessive" /\ last.outcome = "small") =>
        \A k \in 1..Len(last.trace) : last.trace[k] \notin {"caption", "classify", "hash"}

\* C7 as the code has it: a candidate skipped as too small went through
\* clipping, the caption search and the rendering, and through nothing else
\* (no classifier, no hash); no record and no hash was added for it.
C7_SmallAfterCaption ==
    [][(pc = "cand" /\ variant = "excessive" /\ last'.outcome = "small") =>
          /\ last'.trace = <<"clip", "caption", "render">>
          /\ figures' = figures
          /\ kept_hashes' = kept_hashes]_vars

\* a candidate was just skipped as too small
C7_Witness ==
    /\ variant = "excessive" /\ last.outcome = "small"
    /\ last.trace = <<"clip", "caption", "render">> /\ figures # <<>>

\* C10: the record of the page with one image of 200 x 150 and the line
\* "Figure 1. System overview." below it has origin_id "FIGURE 1" and the whole
\* line as its caption.
C10_CaptionIsWholeLine ==
    (variant = "excessive" /\ page = 1 /\ last.outcome = "accepted") =>
        /\ figures[Len(figures)].origin_id = <<"F","I","G","U","R","E"," ","1">>
        /\ figures[Len(figures)].caption
               = Join(<<" ">>, [k \in 1..Len(CaptionLine) |-> CaptionLine[k].text])

\* C3: once the boxes of a page are folded, two input boxes whose IoU exceeds
\* 0.3 lie in one and the same candidate.
C3_OverlappingShareCandidate ==
    Folded = Len(boxes) =>
        \A i, j \in 1..Len(boxes) :
            (i < j /\ IouExceeds(boxes[i], boxes[j])) =>
                \E c \in 1..Len(candidates) :
                    \A b \in {boxes[i], boxes[j]} :
                        /\ candidates[c][1] <= b[1] /\ candidates[c][2] <= b[2]
                        /\ b[3] <= candidates[c][3] /\ b[4] <= candidates[c][4]

IsLabelled(item) == LabelMatches(LabelAlts, item[1])
Excess(item) == Max(0, Len(item[1]) - 260)

\* C8 as stated: of two candidates at equal distance, one labelled and one
\* not, the labelled one is picked, whatever the lengths.
C8_LabelledAlwaysPicked ==
    cap_best # None =>
        \A i, j \in 1..Len(cap_cands) :
            (IsLabelled(cap_cands[i]) /\ ~IsLabelled(cap_cands[j])
             /\ cap_cands[i][2] = cap_cands[j][2])
            => cap_best[1] = cap_cands[i][1]

\* C8 as the code has it: the labelled one is picked when its length above 260
\* exceeds that of the other by less than 5000 characters.
C8_LabelledPickedUnlessLong ==
    cap_best # None =>
        \A i, j \in 1..Len(cap_cands) :
            (IsLabelled(cap_cands[i]) /\ ~IsLabelled(cap_cands[j])
             /\ cap_cands[i][2] = cap_cands[j][2]
             /\ Excess(cap_cands[i]) - Excess(cap_cands[j]) < 5000)
            => cap_best[1] = cap_cands[i][1]

\* a labelled text of more than 5000 characters, second in the list, was picked
\* over a short text without label at the same distance
C8_Witness ==
    /\ cap_best # None
    /\ ~IsLabelled(cap_cands[1]) /\ IsLabelled(cap_cands[2])
    /\ cap_cands[1][2] = cap_cands[2][2]
    /\ Len(cap_cands[1][1]) < 260 /\ Len(cap_cands[2][1]) > 5000
    /\ cap_best[1] = cap_cands[2][1]

Matching == MatchingIndices(variant, ctx_fig[1], sentences)

\* C9: every matching sentence index i has a context range that contains
\* [max(0, i-2), min(total, i+3)); two matching indices i < j with i >= 2,
\* j - i >= 6 and no matching index between them lie in two different ranges.
C9_WindowsCoverAndSeparate ==
    ctx_out # None =>
        LET merged == ctx_out[1].merged
            total == Len(sentences)
        IN /\ Len(ctx_out[1].fig.contexts) = Len(merged)
           /\ \A i \in Matching :
                 \E k \in 1..Len(merged) :
                     merged[k][1] <= Max(0, i - 2) /\ Min(total, i + 3) <= merged[k][2]
           /\ \A i, j \in Matching :
                 (i < j /\ i >= 2 /\ j - i >= 6 /\ \A m \in (i + 1)..(j - 1) : m \notin Matching)
                 => ~ \E k \in 1..Len(merged) :
                         /\ merged[k][1] <= i /\ i < merged[k][2]
                         /\ merged[k][1] <= j /\ j < merged[k][2]

\* references at the sentences 2 and 8 and none between gave two contexts
C9_Witness ==
    /\ ctx_out # None
    /\ Matching = {2, 8}
    /\ Len(ctx_out[1].merged) = 2 /\ Len(ctx_out[1].fig.contexts) = 2

\* C12: the ledger is the sequence of the hashes of the records emitted so far
\* for the document, in emission order (so it is empty when a document starts
\* and holds nothing of another document), and a step of the candidate loop
\* either leaves it as it is or appends the hash of the one record it emits.
C12_LedgerMirrorsRecords ==
    /\ [](variant = "excessive" =>
             /\ Len(kept_hashes) = Len(figures)
             /\ \A k \in 1..Len(figures) : figures[k].phash = HashToStr(kept_hashes[k]))
    /\ [][(variant = "excessive" /\ pc = "cand") =>
             \/ /\ last'.outcome # "accepted"
                /\ kept_hashes' = kept_hashes /\ figures' = figures
             \/ /\ last'.outcome = "accepted"
                /\ Len(kept_hashes') = Len(kept_hashes) + 1
                /\ SubSeq(kept_hashes', 1, Len(kept_hashes)) = kept_hashes
                /\ SubSeq(figures', 1, Len(figures)) = figures]_vars

\* in the second document two records are kept and a candidate was just
\* rejected as a duplicate of one of them
C12_Witness ==
    /\ variant = "excessive" /\ doc = 2 /\ written = {1}
    /\ Len(kept_hashes) = 2 /\ last.outcome = "duplicate"

\* C13: the context post-pass keeps the number and the order of the records and
\* every field of every record, and gives every record a contexts list.
C13_PostPassOnlyAddsContexts ==
    [][(pc = "page" /\ pc' = "main") =>
          /\ Len(figures') = Len(figures)
          /\ \A k \in 1..Len(figures) :
                /\ DOMAIN figures'[k] = DOMAIN figures[k] \cup {"contexts"}
                /\ \A f \in DOMAIN figures[k] : figures'[k][f] = figures[k][f]
                /\ DOMAIN figures'[k].contexts = 1..Len(figures'[k].contexts)]_vars

\* a document was just written with a record that has a context and a record
\* that has none
C13_Witness ==
    /\ last.outcome = "written" /\ Len(figures) >= 2
    /\ \E k \in 1..Len(figures) : figures[k].contexts # <<>>
    /\ \E k \in 1..Len(figures) : figures[k].contexts = <<>>

\* C15: in a document of at least 5 sentences, the window appended for a
\* matching sentence holds at least 5 sentences.
C15_WindowHasFiveSentences ==
    (ctx_out # None /\ Len(sentences) >= 5) =>
        \A k \in 1..Len(ctx_out[1].ranges) :
            ctx_out[1].ranges[k][2] - ctx_out[1].ranges[k][1] >= 5

\* C16: the merged ranges lie within [0, total], each starts strictly after the
\* end of the one before it, they cover the same sentence indices as the raw
\* windows, and contexts has the text of one merged range each, in that order.
C16_MergedRangesDisjointSorted ==
    ctx_out # None =>
        LET merged == ctx_out[1].merged
            ranges == ctx_out[1].ranges
            total == Len(sentences)
            Cover(rs) == {m \in 0..(total - 1) :
                             \E k \in 1..Len(rs) : rs[k][1] <= m /\ m < rs[k][2]}
        IN /\ \A k \in 1..Len(merged) :
                 0 <= merged[k][1] /\ merged[k][1] < merged[k][2] /\ merged[k][2] <= total
           /\ \A k \in 2..Len(merged) :
                 merged[k - 1][1] < merged[k][1] /\ merged[k - 1][2] < merged[k][1]
           /\ Cover(merged) = Cover(ranges)
           /\ Len(ctx_out[1].fig.contexts) = Len(merged)
           /\ \A k \in 1..Len(merged) :
                 ctx_out[1].fig.contexts[k]
                     = Join(<<" ">>, SubSeq(sentences, merged[k][1] + 1, merged[k][2]))

\* two windows that touch (the first ends where the second starts) were merged
\* into one range
C16_Witness ==
    /\ ctx_out # None
    /\ Len(ctx_out[1].ranges) = 2 /\ Len(ctx_out[1].merged) = 1
    /\ ctx_out[1].ranges[1][2] = ctx_out[1].ranges[2][1]

\* C17: at every point of the fold, each box folded so far lies within a
\* candidate, each candidate is the bounding box of the boxes it absorbed, and
\* there are no more candidates than boxes folded.
C17_MergerKeepsEveryBox ==
    /\ Len(candidates) = Len(absorbed) /\ Len(candidates) <= Folded
    /\ \A i \in 1..Folded :
          \E c \in 1..Len(candidates) :
              /\ candidates[c][1] <= boxes[i][1] /\ candidates[c][2] <= boxes[i][2]
              /\ boxes[i][3] <= candidates[c][3] /\ boxes[i][4] <= candidates[c][4]
    /\ \A c \in 1..Len(candidates) :
          /\ absorbed[c] # {}
          /\ \A e \in 1..2 :
                /\ \E i \in absorbed[c] : boxes[i][e] = candidates[c][e]
                /\ \A i \in absorbed[c] : boxes[i][e] >= candidates[c][e]
          /\ \A e \in 3..4 :
                /\ \E i \in absorbed[c] : boxes[i][e] = candidates[c][e]
                /\ \A i \in absorbed[c] : boxes[i][e] <= candidates[c][e]

\* all boxes are folded into two candidates, one of which has grown beyond
\* each of the boxes it absorbed
C17_Witness ==
    /\ Len(boxes) = MaxBoxes /\ Folded = Len(boxes) /\ Len(candidates) = 2
    /\ \E c \in 1..Len(candidates) :
          Cardinality(absorbed[c]) = 2 /\ \A i \in absorbed[c] : boxes[i] # candidates[c]

\* C18: when the fold of a page is over, no two distinct candidates satisfy
\* the merge rule against each other.
C18_CandidatesDeduplicated ==
    Folded = Len(boxes) =>
        \A c, d \in 1..Len(candidates) :
            c # d => ~MergeRule(candidates[c], candidates[d])

\* C19: at every point of the clustering, each primitive handled so far is in
\* exactly one cluster, the counts of the clusters add up to the number of
\* primitives of each kind, and each cluster's box is the bounding box of its
\* members' boxes; a step puts the primitive into the first cluster near its
\* expanded box, or into a new last cluster, and leaves all other clusters as
\* they are.
C19_ClustererFirstMatchNoRemerge ==
    /\ [](/\ Len(members) = Len(clusters)
          /\ \A i \in 1..Clustered :
                Cardinality({c \in 1..Len(members) : i \in members[c]}) = 1
          /\ \A k \in 1..3 :
                SumCard([c \in 1..Len(clusters) |-> 1..clusters[c].st[Kinds[k]]])
                    = Cardinality({i \in 1..Clustered : primitives[i].kind = Kinds[k]})
          /\ \A c \in 1..Len(clusters) :
                /\ members[c] # {}
                /\ \A k \in 1..3 :
                      clusters[c].st[Kinds[k]]
                          = Cardinality({i \in members[c] : primitives[i].kind = Kinds[k]})
                /\ \A e \in 1..2 :
                      /\ \E i \in members[c] : primitives[i].box[e] = clusters[c].box[e]
                      /\ \A i \in members[c] : primitives[i].box[e] >= clusters[c].box[e]
                /\ \A e \in 3..4 :
                      /\ \E i \in members[c] : primitives[i].box[e] = clusters[c].box[e]
                      /\ \A i \in members[c] : primitives[i].box[e] <= clusters[c].box[e])
    /\ [][Clustered' = Clustered + 1 =>
            LET bbox == primitives[Clustered + 1].box
                near == {c \in 1..Len(clusters) :
                            _bbox_dist_sq(_bbox_expand(bbox, MERGE_DIST), clusters[c].box)
                                <= MERGE_DIST * MERGE_DIST}
                target == IF near = {} THEN Len(clusters) + 1
                          ELSE CHOOSE c \in near : \A d \in near : c <= d
            IN /\ Len(clusters') = (IF near = {} THEN Len(clusters) + 1 ELSE Len(clusters))
               /\ (Clustered + 1) \in members'[target]
               /\ \A c \in 1..Len(clusters) : c # target => clusters'[c] = clusters[c]]_vars

\* the third stroke is near both earlier clusters, which are not near each
\* other: it joined the first, and two clusters remain
C19_Witness ==
    /\ Len(primitives) = 3 /\ Clustered = 3 /\ graphic_boxes # None
    /\ members = <<{1, 3}, {2}>>
    /\ ClusterNear(primitives[3].box, clusters[2].box)
    /\ clusters[1].box # primitives[1].box

C14_FilenameRoundTrip ==
    fname_out # None =>
        fname_out[1].parsed = <<fname_in[1].stem, fname_in[1].page>>

C21_LastOnlyDedup ==
    /\ [](variant = "inadequate" =>
             /\ last_kept_hash = (IF figures = <<>> THEN None
                                  ELSE StrToHash(figures[Len(figures)].phash))
             /\ \A k \in 1..(Len(figures) - 1) :
                   Hamming(StrToHash(figures[k].phash), StrToHash(figures[k + 1].phash))
                       > HASH_THRESHOLD)
    /\ [][(variant = "inadequate" /\ pc = "cand") =>
             /\ (\/ last'.outcome \in {"duplicate", "accepted"}
                 \/ last'.outcome = "error" /\ last'.trace[Len(last'.trace)] = "save")
                => (last'.outcome = "duplicate"
                    <=> /\ figures # <<>>
                        /\ Hamming(last'.hash, StrToHash(figures[Len(figures)].phash))
                               <= HASH_THRESHOLD)
             /\ last_kept_hash' # last_kept_hash
                => last'.outcome = "accepted" /\ Len(figures') = Len(figures) + 1
             /\ last'.outcome = "accepted" => last_kept_hash' = last'.hash]_vars

\* three records were emitted, the third with the hash of the first: it was
\* compared with the second only
C21_Witness ==
    /\ variant = "inadequate" /\ Len(figures) = 3
    /\ figures[1].phash = figures[3].phash

\* C25: the image_path of a record is out_dir/{stem}_p{page}_{tail}.png, tail
\* being the normalized label of its caption (excessive, when there is one) or
\* else its origin_id, sanitized; so two records of a page with the same
\* origin_id have the same image_path.  An accepted item appends its record,
\* keeps all earlier records, and leaves its image as the only content of the
\* file under its path, whatever was there before; other files are untouched.
C25_PathFromPageAndLabel ==
    /\ [](/\ \A a \in 1..Len(figures) :
                figures[a].image_path
                    = <<"r","a","w","_","i","m","g","/">> \o Stem(doc) \o <<"/">> \o Stem(doc)
                      \o <<"_","p">> \o IntToStr(figures[a].page) \o <<"_">>
                      \o _sanitize_for_filename(
                             IF /\ variant = "excessive"
                                /\ _normalize_label_for_filename(figures[a].caption) # <<>>
                             THEN _normalize_label_for_filename(figures[a].caption)
                             ELSE figures[a].origin_id)
                      \o <<".","p","n","g">>
          /\ \A a, b \in 1..Len(figures) :
                (figures[a].page = figures[b].page /\ figures[a].origin_id = figures[b].origin_id)
                => figures[a].image_path = figures[b].image_path
          /\ \A f, g \in out_files : f.path = g.path => f = g
          /\ \A a \in 1..Len(figures) : \E f \in out_files : f.path = figures[a].image_path)
    /\ [][(pc = "cand" /\ last'.outcome = "accepted") =>
             /\ Len(figures') = Len(figures) + 1
             /\ SubSeq(figures', 1, Len(figures)) = figures
             /\ [path |-> figures'[Len(figures')].image_path,
                 data |-> figures'[Len(figures')].phash] \in out_files'
             /\ \A f \in out_files :
                   f.path # figures'[Len(figures')].image_path => f \in out_files'
             /\ \A f \in out_files' :
                   f.path # figures'[Len(figures')].image_path => f \in out_files]_vars

\* two records with different images have the same image_path; the file holds
\* the image of the later one, the image of the earlier one is in no file
C25_Witness ==
    \E a, b \in 1..Len(figures) :
        /\ a < b /\ figures[a].image_path = figures[b].image_path
        /\ figures[a].phash # figures[b].phash
        /\ [path |-> figures[b].image_path, data |-> figures[b].phash] \in out_files
        /\ \A f \in out_files : f.data # figures[a].phash

\* C22: every candidate of the caption search has the distance 0, whatever the
\* gap between its text and the box; the candidates are the texts of the sides
\* in the order bottom, top, right, left; and the caption is the text of the
\* first candidate of maximal score 10 * [has label] - 0.002 * max(0, len - 260).
C22_DistanceAlwaysZero ==
    cap_best # None =>
        LET placed == cap_page[1].placed
            sides == SelectSeq(SideNames, LAMBDA s : placed[s] # <<>>)
            text(k) == PlacedText(sides[k], placed[sides[k]][1].kind)
            score(k) == (IF placed[sides[k]][1].kind = "label" THEN 10000 ELSE 0)
                        - 2 * (IF Len(text(k)) > 260 THEN Len(text(k)) - 260 ELSE 0)
        IN /\ Len(cap_cands) = Len(sides)
           /\ \A k \in 1..Len(sides) : cap_cands[k] = <<text(k), 0>>
           /\ IF sides = <<>> THEN cap_best[1] = <<>>
              ELSE \E k \in 1..Len(sides) :
                      /\ cap_best[1] = text(k)
                      /\ \A j \in 1..Len(sides) : score(j) <= score(k)
                      /\ \A j \in 1..(k - 1) : score(j) < score(k)

\* labelled texts lie above the box at the larger gap and right of it at the
\* smaller gap, a plain text lies below: the text above was picked
C22_Witness ==
    /\ cap_best # None
    /\ cap_page[1].placed["bottom"] = <<[kind |-> "plain", gap |-> 5]>>
    /\ cap_page[1].placed["top"] = <<[kind |-> "label", gap |-> 35]>>
    /\ cap_page[1].placed["right"] = <<[kind |-> "label", gap |-> 5]>>
    /\ cap_best[1] = PlacedText("top", "label")
    /\ Len(cap_cands) >= 3

\* C23: for a record without label (its origin_id is FIG_P{page}_{index}) whose
\* caption holds no digit, every sentence that holds "Figure {page}" or
\* "Table {page}" lies in one of the record's context ranges, and the context
\* of that range holds the sentence.
C23_UnlabelledMatchedByPage ==
    ctx_out # None =>
        \A k \in 1..Len(ctx_fig) :
            LET fig == ctx_fig[k]
                pg == IntToStr(fig.page)
                Holds(s, t) == \E p \in 1..(Len(s) - Len(t) + 1) : SubSeq(s, p, p + Len(t) - 1) = t
                mention == {i \in 0..(Len(sentences) - 1) :
                               \/ Holds(sentences[i + 1], <<"F","i","g","u","r","e"," ">> \o pg)
                               \/ Holds(sentences[i + 1], <<"T","a","b","l","e"," ">> \o pg)}
            IN (/\ \E n \in 1..9 : fig.origin_id = <<"F","I","G","_","P">> \o pg \o <<"_">> \o IntToStr(n)
                /\ \A p \in 1..Len(fig.caption) : fig.caption[p] \notin DigitSet)
               => \A i \in mention :
                     \E r \in 1..Len(ctx_out[k].merged) :
                         /\ ctx_out[k].merged[r][1] <= i /\ i < ctx_out[k].merged[r][2]
                         /\ Holds(ctx_out[k].fig.contexts[r], sentences[i + 1])

\* the record FIG_P2_1 of page 2 got a context for a text that mentions Table 2
\* only, and the record FIG_P3_2 of page 3 got none
C23_Witness ==
    /\ ctx_out # None
    /\ ctx_fig[1].origin_id = <<"F","I","G","_","P","2","_","1">> /\ ctx_fig[1].page = 2
    /\ ctx_fig[2].origin_id = <<"F","I","G","_","P","3","_","2">>
    /\ \E i \in 1..Len(sentences) : sentences[i] = SentTable2
    /\ \A i \in 1..Len(sentences) : sentences[i] # SentFigure2
    /\ ctx_out[1].fig.contexts # <<>> /\ ctx_out[2].fig.contexts = <<>>

\* C24: two records of a document whose origin_id + " " + caption have the same
\* first number get the same contexts list, whatever their labels; and every
\* sentence that holds "Table {n}" or "Figure {n}" lies in a context range of
\* every record with the number n, so a record labelled as a figure gets the
\* contexts of the sentences that mention only the table.
C24_ContextsIgnoreLabelKind ==
    ctx_out # None =>
        LET Holds(s, t) == \E p \in 1..(Len(s) - Len(t) + 1) : SubSeq(s, p, p + Len(t) - 1) = t
            num(k) == FirstNumber(ctx_fig[k].origin_id \o <<" ">> \o ctx_fig[k].caption)
        IN /\ \A a, b \in 1..Len(ctx_fig) :
                 num(a) = num(b) => ctx_out[a].fig.contexts = ctx_out[b].fig.contexts
           /\ \A k \in 1..Len(ctx_fig) : \A i \in 0..(Len(sentences) - 1) :
                 (\/ Holds(sentences[i + 1], <<"T","a","b","l","e"," ">> \o num(k))
                  \/ Holds(sentences[i + 1], <<"F","i","g","u","r","e"," ">> \o num(k)))
                 => \E r \in 1..Len(ctx_out[k].merged) :
                        ctx_out[k].merged[r][1] <= i /\ i < ctx_out[k].merged[r][2]

\* the records FIGURE 2 and TABLE 2 got the same, non-empty contexts for a text
\* that mentions Table 2 and never Figure 2
C24_Witness ==
    /\ ctx_out # None
    /\ ctx_fig[1].origin_id = <<"F","I","G","U","R","E"," ","2">>
    /\ ctx_fig[2].origin_id = <<"T","A","B","L","E"," ","2">>
    /\ \E i \in 1..Len(sentences) : sentences[i] = SentTable2
    /\ \A i \in 1..Len(sentences) : sentences[i] # SentFigure2
    /\ ctx_out[1].fig.contexts # <<>>
    /\ ctx_out[1].fig.contexts = ctx_out[2].fig.contexts
=============================================================================
